---- MODULE Spec2Model ----
(***************************************************************************)
(* Manufacturing process-flow simulation: the SCADA assembly-line engine   *)
(* (src/simulation/scada_sim.py) and the job-shop engine                   *)
(* (src/simulation/job_shop.py).                                           *)
(*                                                                         *)
(* Dates are day numbers counted from the simulator's start date           *)
(* (SIM_START = 2024-04-01 and START_DATE = 2024-01-01 are both Mondays,   *)
(* so weekday(d) = d % 7 with Monday = 0).                                 *)
(* Random draws are read from a tape: a finite sequence of raw draws, each *)
(* an eighth of the unit interval, that the generator replays cyclically,  *)
(* shifted at each pass; every tape is explored.  A table keeps the        *)
(* columns the properties below read and the draws of every column, so     *)
(* that each builder leaves the generators where the code leaves them.     *)
(***************************************************************************)
EXTENDS Integers, Sequences, FiniteSets, TLC

VARIABLES
    pyRandom,             \* state of the process-wide `random` module generator
    sims,                 \* simulator instances: phase, kind, seed, rng, tables
    simulator,            \* which simulator's run() is followed
    rng,                  \* self.rng, the generator of the simulator that runs
    stage,                \* how far run() has come
    maintenance_dates,    \* ScadaSimulator.maintenance_dates: station -> dates
    days_since,           \* results of _days_since_last_maintenance, <<>> before
    orders,               \* ScadaSimulator.orders
    fact_sensor_readings, \* tables["fact_sensor_readings"] (SCADA)
    fact_production,      \* tables["fact_production"] (of either simulator)
    fact_quality_events,  \* tables["fact_quality_events"] (SCADA)
    fact_alarms,          \* tables["fact_alarms"] (SCADA)
    sensor_value,         \* a call of _generate_sensor_value: inputs and result
    n_orders,             \* the argument of JobShopSimulator.run
    dim_operators,        \* the dim_operators table (of either simulator)
    fact_job_orders,      \* JobShopSimulator.fact_job_orders
    fact_quality,         \* JobShopSimulator.fact_quality
    dim_stations,         \* tables["dim_stations"] (SCADA)
    dim_sensors,          \* tables["dim_sensors"] (SCADA)
    dim_machines,         \* JobShopSimulator.dim_machines
    fact_downtime,        \* the downtime table (of either simulator)
    downtime_candidates,  \* the draws of _build_fact_downtime, per candidate
    probabilities,        \* defect_rate and keep_prob at two maintenance ages
    scenario_reading,     \* a reading of a reconfigured signal and its alarm
    sampling,             \* the reading loops of one day: position and counts
    calls                 \* len(self.orders) at the return of each earlier run()

schedVars   == <<maintenance_dates, days_since>>
scadaOnly   == <<orders, fact_sensor_readings, fact_quality_events, fact_alarms,
                 sensor_value>>
scadaTables == <<scadaOnly, fact_production>>
scadaState  == <<schedVars, scadaOnly>>
jobOnly     == <<n_orders, dim_operators, fact_job_orders, fact_quality>>
dimVars     == <<dim_stations, dim_sensors, dim_machines>>
downVars    == <<fact_downtime, downtime_candidates>>
callVars    == <<probabilities, scenario_reading, sampling, calls>>
runVars     == <<simulator, rng, stage, schedVars, scadaTables, jobOnly,
                 dimVars, downVars, callVars>>
vars        == <<pyRandom, sims, runVars>>

(***************************************************************************)
(* Bounds of the model.                                                    *)
(***************************************************************************)
NumSims     == 3    \* simulator instances alive in one process
MaxSeed     == 2    \* seeds 1..MaxSeed
DrawsPerRun == 2    \* draws one run() takes from each generator
TapeLen     == 2    \* length of a tape of raw draws
MaxDays     == 2    \* workdays the per-day loops of a run are followed for
MaxJobOrders == 3   \* largest n_orders given to JobShopSimulator.run
MaxEvents   == 2    \* downtime candidates followed per (station, category)
MaxMachines == 2    \* machines the job-shop downtime loop is followed for
MaxCalls    == 2    \* run() calls followed on one ScadaSimulator instance

(***************************************************************************)
(* Generic helpers.                                                        *)
(***************************************************************************)
Max2(a, b) == IF a >= b THEN a ELSE b
Min2(a, b) == IF a <= b THEN a ELSE b
SetMax(S)  == CHOOSE x \in S : \A y \in S : y <= x
Last(s)    == s[Len(s)]

\* A generator is a tape of raw draws and a position on it.  Raw draws are
\* eighths of the unit interval (u stands for u/8).  The k-th draw of a
\* generator is the tape entry at k, shifted by 3 on every pass over the tape,
\* so a stream repeats only after 8 passes.
RawDraws == 0..7
Tapes    == [1..TapeLen -> RawDraws]
Period   == 8 * TapeLen
RawAt(tape, pos) ==
    (tape[((pos - 1) % TapeLen) + 1] + 3 * (((pos - 1) % Period) \div TapeLen)) % 8
\* The draw that is n draws ahead of the generator's position (n = 0: the next).
Draw(g, n) == RawAt(g.tape, g.pos + n)
Advance(g, n) == [g EXCEPT !.pos = ((g.pos - 1 + n) % Period) + 1]

\* rng.integers(lo, hi): an integer in lo..hi-1 (hi is exclusive).
Integers_(u, lo, hi) == lo + (u * (hi - lo)) \div 8

\* A standard normal draw, in tenths, as the quantile of the raw draw.
NormalTenths(u) == <<-30, -15, -8, -2, 2, 8, 15, 30>>[u + 1]

\* n / d rounded to the nearest integer, ties to even (round()), d > 0.
RoundDiv(n, d) ==
    LET m == IF n < 0 THEN 0 - n ELSE n
        q == m \div d
        r == m % d
        a == IF 2 * r > d \/ (2 * r = d /\ q % 2 = 1) THEN q + 1 ELSE q
    IN  IF n < 0 THEN 0 - a ELSE a

(***************************************************************************)
(* Seeding and determinism (both simulators' __init__ and run).            *)
(***************************************************************************)
Sims  == 1..NumSims
Seeds == {[k \in 1..TapeLen |-> c] : c \in 1..MaxSeed}
Kinds == {"scada", "jobshop"}

\* np.random.default_rng(seed): a generator owned by the instance.
NpGen(seed) == [tape |-> seed, pos |-> 1]
\* random.seed(seed): reseeds the one generator of the `random` module; its
\* stream is another function of the seed.
PyGen(seed) == [tape |-> [k \in 1..TapeLen |-> (seed[TapeLen + 1 - k] + 5) % 8],
                pos |-> 1]
\* The `random` module before any random.seed call.
PyUnseeded == [tape |-> [k \in 1..TapeLen |-> 0], pos |-> 1]

RECURSIVE Stream(_, _)
Stream(g, n) == IF n = 0 THEN <<>> ELSE <<Draw(g, 0)>> \o Stream(Advance(g, 1), n - 1)

NoSim == [phase |-> "none", kind |-> "none", seed |-> <<>>, rng |-> <<>>,
          tables |-> <<>>]

\* __init__(seed): a fresh instance generator, and the module generator reseeded.
Construct(i, kind, seed) ==
    /\ sims[i].phase = "none"
    /\ sims' = [sims EXCEPT ![i] = [phase |-> "constructed", kind |-> kind,
                                    seed |-> seed, rng |-> NpGen(seed),
                                    tables |-> <<>>]]
    /\ pyRandom' = PyGen(seed)
    /\ UNCHANGED runVars

\* The tables of a run are determined by the values it draws: those read from
\* the instance's self.rng and those read through random.choice / random.choices.
RunTables(kind, g, py) ==
    [kind |-> kind, np |-> Stream(g, DrawsPerRun), py |-> Stream(py, DrawsPerRun)]

\* run(): builds every table, drawing from self.rng and from the module generator.
Run(i) ==
    /\ sims[i].phase = "constructed"
    /\ sims' = [sims EXCEPT ![i] = [@ EXCEPT !.phase = "ran",
                                    !.rng = Advance(@, DrawsPerRun),
                                    !.tables = RunTables(sims[i].kind, sims[i].rng, pyRandom)]]
    /\ pyRandom' = Advance(pyRandom, DrawsPerRun)
    /\ UNCHANGED runVars

\* C1 (as claimed): two instances of the same simulator built with the same
\* seed and each run once hold equal tables, whatever the order in which
\* instances were constructed and run.
C1_SameSeedSameTables ==
    \A i \in Sims : \A j \in Sims :
        (/\ sims[i].phase = "ran" /\ sims[j].phase = "ran"
         /\ sims[i].kind = sims[j].kind /\ sims[i].seed = sims[j].seed)
            => sims[i].tables = sims[j].tables

(***************************************************************************)
(* SCADA calendar and maintenance schedule.                                *)
(***************************************************************************)
SimEndDay == 182                       \* SIM_END = 2024-09-30, as a day number
Weekday(d) == d % 7                    \* datetime.weekday(), Monday = 0
StationIds == <<"STN-01", "STN-02", "STN-03", "STN-04", "STN-05", "STN-06">>
NumStations == Len(StationIds)

NoDates == [k \in 1..NumStations |-> <<>>]

\* Mutant: the weekday test of the loop is dropped.
RECURSIVE CursorLoopAnyDay(_, _, _)
CursorLoopAnyDay(g, cursor, dates) ==
    IF cursor <= SimEndDay
    THEN CursorLoopAnyDay(Advance(g, 1),
                          cursor + Integers_(Draw(g, 0), 18, 25),
                          Append(dates, cursor))
    ELSE [dates |-> dates, g |-> g]

\* The while loop of _schedule_maintenance for one station.
RECURSIVE CursorLoop(_, _, _)
CursorLoop(g, cursor, dates) ==
    IF cursor <= SimEndDay
    THEN CursorLoop(Advance(g, 1),
                    cursor + Integers_(Draw(g, 0), 18, 25),
                    IF Weekday(cursor) < 5 THEN Append(dates, cursor) ELSE dates)
    ELSE [dates |-> dates, g |-> g]

\* The for loop over STATIONS; the generator carries over from station to station.
RECURSIVE ScheduleFrom(_, _, _)
ScheduleFrom(g, k, md) ==
    IF k > NumStations THEN [md |-> md, g |-> g]
    ELSE LET first == Integers_(Draw(g, 0), 14, 22)
             r     == CursorLoop(Advance(g, 1), first, <<>>)
         IN  ScheduleFrom(r.g, k + 1, [md EXCEPT ![k] = r.dates])

Schedule(g) == ScheduleFrom(g, 1, NoDates)

ScheduleMaintenance ==
    /\ simulator = "scada"
    /\ stage = "dimensions"
    /\ maintenance_dates' = Schedule(rng).md
    /\ rng' = Schedule(rng).g
    /\ stage' = "scheduled"
    /\ UNCHANGED <<days_since, pyRandom, sims, simulator, scadaTables, jobOnly,
                 dimVars, downVars, callVars>>

\* Mutant: a maintenance date counts as past only strictly before the instant.
DaysSinceStrictlyBefore(md, k, t) ==
    LET dates == md[k]
        now   == t.day * 1440 + t.minute
        past  == {dates[j] : j \in {j \in 1..Len(dates) : dates[j] * 1440 < now}}
    IN  IF past = {} THEN now \div 1440
        ELSE (now - SetMax(past) * 1440) \div 1440

\* _days_since_last_maintenance(station_id, current_date), stations by index.
DaysSinceLastMaintenance(md, k, t) ==
    LET dates == md[k]
        now   == t.day * 1440 + t.minute
        past  == {dates[j] : j \in {j \in 1..Len(dates) : dates[j] * 1440 <= now}}
    IN  IF past = {} THEN now \div 1440
        ELSE (now - SetMax(past) * 1440) \div 1440

\* The instants the simulator asks about: any day of the horizon and the day
\* after it (the night loop), at sampled times of day.
Instants == [day : 0..(SimEndDay + 1), minute : {0, 1435}]

EvalDaysSince ==
    /\ stage = "scheduled"
    /\ days_since = <<>>
    /\ days_since' = [k \in 1..NumStations |->
                        [t \in Instants |-> DaysSinceLastMaintenance(maintenance_dates, k, t)]]
    /\ UNCHANGED <<maintenance_dates, stage, rng, pyRandom, sims, simulator,
                   scadaTables, jobOnly,
                 dimVars, downVars, callVars>>

(***************************************************************************)
(* Properties of the maintenance schedule and of the latent state.         *)
(***************************************************************************)
DateSet(k) == {maintenance_dates[k][j] : j \in 1..Len(maintenance_dates[k])}
NextDay(t) == [day |-> t.day + 1, minute |-> t.minute]

\* C2: for every station and instant, _days_since_last_maintenance is the
\* number of whole days since the latest maintenance date at or before the
\* instant, or since SIM_START when there is none; it is 0 on a maintenance
\* date, grows by exactly 1 per calendar day up to the next maintenance date,
\* and is never negative.
C2_DaysSinceContract ==
    days_since # <<>> =>
        \A k \in 1..NumStations :
            LET ds == DateSet(k)
                f  == days_since[k]
            IN  \A t \in Instants :
                    LET r      == f[t]
                        before == {d \in ds : d <= t.day}
                    IN  /\ r >= 0
                        /\ (before = {} => r = t.day)
                        /\ (before # {} =>
                                \E d \in before : /\ \A e \in before : e <= d
                                                  /\ r = t.day - d)
                        /\ (t.day \in ds => r = 0)
                        /\ (t.day <= SimEndDay /\ (t.day + 1) \notin ds
                                => f[NextDay(t)] = r + 1)

\* C2 witness: the function has been evaluated for a station with several
\* maintenance dates, on one of them and on the day before one of them.
C2_Witness ==
    /\ days_since # <<>>
    /\ \E k \in 1..NumStations :
          /\ Len(maintenance_dates[k]) >= 3
          /\ \E j \in 2..Len(maintenance_dates[k]) :
                LET d == maintenance_dates[k][j]
                IN  /\ days_since[k][[day |-> d, minute |-> 1435]] = 0
                    /\ days_since[k][[day |-> d - 1, minute |-> 0]]
                          = d - 1 - maintenance_dates[k][j - 1]

\* C3: after _schedule_maintenance every station's list is strictly
\* increasing and holds only Monday-to-Friday dates in [SIM_START, SIM_END].
C3_ScheduleWellFormed ==
    stage # "new" =>
        \A k \in 1..NumStations :
            \A j \in 1..Len(maintenance_dates[k]) :
                LET d == maintenance_dates[k][j]
                IN  /\ d % 7 \in 0..4
                    /\ d >= 0 /\ d <= SimEndDay
                    /\ (j > 1 => maintenance_dates[k][j - 1] < d)

\* C3 witness: a finished schedule in which a cursor date fell on a weekend
\* and was left out (two adjacent dates further apart than one interval).
C3_Witness ==
    /\ stage = "scheduled"
    /\ \A k \in 1..NumStations : Len(maintenance_dates[k]) >= 2
    /\ \E k \in 1..NumStations : \E j \in 2..Len(maintenance_dates[k]) :
          maintenance_dates[k][j] - maintenance_dates[k][j - 1] > 24

\* C4 (as claimed): adjacent maintenance dates of a station are 18 to 24 days
\* apart and the first date is 14 to 21 days after SIM_START.
C4_SpacingWithinRange ==
    stage # "new" =>
        \A k \in 1..NumStations :
            \A j \in 1..Len(maintenance_dates[k]) :
                LET d == maintenance_dates[k][j]
                IN  IF j = 1 THEN d >= 14 /\ d <= 21
                    ELSE /\ d - maintenance_dates[k][j - 1] >= 18
                         /\ d - maintenance_dates[k][j - 1] <= 24

(***************************************************************************)
(* SCADA orders, production and quality events.                            *)
(***************************************************************************)
\* Mutant: every calendar day counts as a business day (pd.date_range).
DateRangeAllDays(endDay) == [i \in 1..(endDay + 1) |-> i - 1]

\* pd.bdate_range(start, end) for a start that is a Monday: the Monday-to-Friday
\* days of 0..endDay, ascending.
BDateRange(endDay) ==
    SelectSeq([i \in 1..(endDay + 1) |-> i - 1], LAMBDA d : Weekday(d) < 5)

workdays == BDateRange(SimEndDay)                  \* self.workdays
\* The workdays the per-day loops are followed for: MaxDays of them, spread
\* evenly from the first workday of the horizon to the last.
LoopDays ==
    IF MaxDays = 1 THEN <<workdays[1]>>
    ELSE [i \in 1..MaxDays |->
            workdays[1 + ((i - 1) * (Len(workdays) - 1)) \div (MaxDays - 1)]]

\* datetime.month of a day of the SCADA horizon (day 0 is April 1st).
MonthOf(d) ==
    IF d < 30 THEN 4 ELSE IF d < 61 THEN 5 ELSE IF d < 92 THEN 6
    ELSE IF d < 123 THEN 7 ELSE IF d < 153 THEN 8 ELSE IF d < 183 THEN 9 ELSE 10

\* _demand_multiplier, in tenths.
DemandMultiplier(d) == IF MonthOf(d) \in {9, 10} THEN 13 ELSE 10

\* random.choices(population, weights)[0]: the first index whose cumulative
\* weight (in hundredths) exceeds the draw.
WeightedChoice(u, cum) ==
    CHOOSE i \in 1..Len(cum) :
        /\ u * 100 < 8 * cum[i]
        /\ \A j \in 1..(i - 1) : ~(u * 100 < 8 * cum[j])
\* random.choice(seq) for a sequence of n entries: an index in 1..n.
ChoiceIndex(u, n) == (u * n) \div 8 + 1

ProductIds == <<"RA-100", "RA-200", "RA-300">>
Priorities == <<"Standard", "Rush", "Critical">>

\* The inner loop of _generate_orders: the orders of one day.
OrdersOfDay(day, count, oid, py) ==
    [j \in 1..count |->
        [order_id |-> <<"ORD", oid + j - 1>>,
         date     |-> day,
         product_id |-> ProductIds[WeightedChoice(Draw(py, 2 * (j - 1)),
                                                  <<50, 80, 100>>)],
         priority |-> Priorities[WeightedChoice(Draw(py, 2 * (j - 1) + 1),
                                                <<65, 90, 100>>)]]]

\* The loop of _generate_orders over the workdays.
RECURSIVE OrdersLoop(_, _, _, _, _, _)
OrdersLoop(days, i, oid, g, py, acc) ==
    IF i > Len(days) THEN [orders |-> acc, g |-> g, py |-> py]
    ELSE LET day   == days[i]
             count == Max2(4, (8 * DemandMultiplier(day)) \div 10
                                 + Integers_(Draw(g, 0), -1, 3))
         IN  OrdersLoop(days, i + 1, oid + count, Advance(g, 1),
                        Advance(py, 2 * count),
                        acc \o OrdersOfDay(day, count, oid, py))

GenerateOrders ==
    /\ simulator = "scada"
    /\ stage = "scheduled"
    /\ LET r == OrdersLoop(LoopDays, 1, 1, rng, pyRandom, orders)
       IN  /\ orders' = r.orders
           /\ rng' = r.g
           /\ pyRandom' = r.py
    /\ stage' = "ordered"
    /\ UNCHANGED <<sims, simulator, schedVars, fact_sensor_readings,
                   fact_production, fact_quality_events, fact_alarms,
                   sensor_value, jobOnly,
                 dimVars, downVars, callVars>>

\* STATIONS[k]["base_defect_rate"], in thousandths.
BaseDefectRate == <<20, 30, 25, 35, 30, 15>>
ShiftNames == <<"Day", "Swing", "Night">>
\* SHIFTS[shift]["efficiency"], in hundredths.
ShiftEfficiency(shift) ==
    CASE shift = "Day" -> 100 [] shift = "Swing" -> 97 [] shift = "Night" -> 93
\* operator_by_shift: the OPERATORS whose primary shift it is, by position.
OperatorsByShift(shift) ==
    CASE shift = "Day" -> <<1, 2, 3, 4>> [] shift = "Swing" -> <<5, 6, 7, 8>>
      [] shift = "Night" -> <<9, 10, 11, 12>>

\* 1000 * sin(pi * a / h) for 0 <= a <= h (Bhaskara's rational approximation,
\* exact at 0, h/6, h/2, 5h/6 and h, within 0.002 elsewhere).
HalfSine(a, h) == (16000 * a * (h - a)) \div (5 * h * h - 4 * a * (h - a))
\* 1000 * sin(2 * pi * (day_of_year - 80) / 365); April 1st 2024 is day 92.
SeasonalSine(d) ==
    LET a == (2 * (d + 92 - 80)) % 730
    IN  IF a <= 365 THEN HalfSine(a, 365) ELSE 0 - HalfSine(a - 365, 365)
\* Mutant: the humidity swings by 15 %RH over the year.
SeasonalHumidityOffsetWide(d) == 15 * SeasonalSine(d)

\* _seasonal_humidity_offset and _seasonal_temp_offset, in thousandths.
SeasonalHumidityOffset(d) == 10 * SeasonalSine(d)
SeasonalTempOffset(d)     == 4 * SeasonalSine(d)

IsRush(priority) == priority \in {"Rush", "Critical"}

\* humidity = 42 + self._seasonal_humidity_offset(day), in thousandths.
Humidity(day) == 42000 + SeasonalHumidityOffset(day)

\* The factor the humidity of the cleanroom station STN-05 puts on its defect
\* rate, in halves: 2.5 above 55 %RH, 1.5 above 50 %RH, else none.
EnvironmentalPenalty(k, day) ==
    IF k # 5 THEN 2
    ELSE IF Humidity(day) > 55000 THEN 5
    ELSE IF Humidity(day) > 50000 THEN 3 ELSE 2

\* Mutant: the wear term restarts every 30 days whether or not the station
\* was maintained.
DefectRateWearCycle(k, shift, rush, day, days) ==
    [num |-> BaseDefectRate[k] * (IF rush THEN 18 ELSE 10) * 2 * (125 + (days % 30)),
     den |-> ShiftEfficiency(shift) * 25000]

\* The defect probability of _build_fact_production as an exact fraction, for
\* days_maint = days:
\* base * (1 / shift_eff) * (1.8 if rush) * humidity penalty * (1 + 0.008 * days).
DefectRateAt(k, shift, rush, day, days) ==
    [num |-> BaseDefectRate[k] * (IF rush THEN 18 ELSE 10)
                * EnvironmentalPenalty(k, day) * (125 + days),
     den |-> ShiftEfficiency(shift) * 25000]

\* defect_rate of the row of station k on the given day.
DefectRate(md, k, shift, rush, day) ==
    DefectRateAt(k, shift, rush, day,
                 DaysSinceLastMaintenance(md, k, [day |-> day, minute |-> 0]))

\* Draws of self.rng per production row: cycle time, queue time, setup time
\* and the pass/fail draw, in that order.
ProductionDraws == 4

\* passed = self.rng.random() > defect_rate
Passed(u, rate) == u * rate.den > 8 * rate.num

\* _build_fact_production: one row per order and station.  Row n belongs to
\* order (n-1) \div 6 + 1 and station (n-1) % 6 + 1; an order takes one draw of
\* the module generator for its shift and one per station for the operator.
ProductionRows(ords, md, g, py) ==
    [n \in 1..(NumStations * Len(ords)) |->
        LET oi    == ((n - 1) \div NumStations) + 1
            k     == ((n - 1) % NumStations) + 1
            order == ords[oi]
            base  == (NumStations + 1) * (oi - 1)
            shift == ShiftNames[WeightedChoice(Draw(py, base), <<50, 85, 100>>)]
            ops   == OperatorsByShift(shift)
            rate  == DefectRate(md, k, shift, IsRush(order.priority), order.date)
        IN  [production_id  |-> <<"PRD", n>>,
             order_id       |-> order.order_id,
             product_id     |-> order.product_id,
             station_id     |-> k,
             operator_id    |-> ops[ChoiceIndex(Draw(py, base + k), Len(ops))],
             date           |-> order.date,
             shift          |-> shift,
             priority       |-> order.priority,
             quality_result |-> IF Passed(Draw(g, ProductionDraws * n - 1), rate)
                                THEN "Pass" ELSE "Fail"]]

\* Mutant: the production builder consumes the order list as it goes.
BuildFactProductionConsumingOrders ==
    /\ simulator = "scada"
    /\ stage = "readings"
    /\ fact_production' = ProductionRows(orders, maintenance_dates, rng, pyRandom)
    /\ orders' = <<>>
    /\ rng' = Advance(rng, ProductionDraws * NumStations * Len(orders))
    /\ pyRandom' = Advance(pyRandom, (NumStations + 1) * Len(orders))
    /\ stage' = "production"
    /\ UNCHANGED <<sims, simulator, schedVars, fact_sensor_readings,
                   fact_quality_events, fact_alarms, sensor_value, jobOnly,
                   dimVars, downVars, callVars>>

\* Step 5 of run(): _build_fact_production.
BuildFactProduction ==
    /\ simulator = "scada"
    /\ stage = "readings"
    /\ fact_production' = ProductionRows(orders, maintenance_dates, rng, pyRandom)
    /\ rng' = Advance(rng, ProductionDraws * NumStations * Len(orders))
    /\ pyRandom' = Advance(pyRandom, (NumStations + 1) * Len(orders))
    /\ stage' = "production"
    /\ UNCHANGED <<sims, simulator, schedVars, scadaOnly, jobOnly,
                 dimVars, downVars, callVars>>

\* Mutant: no filter on quality_result, one event per production row.
QualityEventsOfAllRows(fp, py) ==
    [j \in 1..Len(fp) |->
        [quality_event_id |-> <<"QE", j>>,
         production_id    |-> fp[j].production_id,
         order_id         |-> fp[j].order_id,
         product_id       |-> fp[j].product_id,
         station_id       |-> fp[j].station_id,
         operator_id      |-> fp[j].operator_id,
         date             |-> fp[j].date,
         shift            |-> fp[j].shift,
         severity         |-> "Minor",
         disposition      |-> "Use-As-Is"]]

\* disposition_map of _build_fact_quality_events, weights cumulated.
ScadaDispositions(severity) ==
    CASE severity = "Minor"    -> [names |-> <<"Rework", "Use-As-Is", "Scrap">>,
                                   cum   |-> <<75, 90, 100>>]
      [] severity = "Major"    -> [names |-> <<"Rework", "Scrap", "Use-As-Is">>,
                                   cum   |-> <<45, 90, 100>>]
      [] severity = "Critical" -> [names |-> <<"Scrap", "Rework", "Use-As-Is">>,
                                   cum   |-> <<70, 95, 100>>]

\* _build_fact_quality_events(fact_production): one event per failed row, in
\* the row order of fact_production.  An event takes five draws of the module
\* generator (severity, disposition, defect type, root cause, corrective
\* action).
QualityEvents(fp, py) ==
    LET failed == SelectSeq(fp, LAMBDA row : row.quality_result = "Fail")
    IN  [j \in 1..Len(failed) |->
            LET severity == <<"Minor", "Major", "Critical">>[
                                WeightedChoice(Draw(py, 5 * (j - 1)), <<50, 85, 100>>)]
                options  == ScadaDispositions(severity)
            IN  [quality_event_id |-> <<"QE", j>>,
                 production_id    |-> failed[j].production_id,
                 order_id         |-> failed[j].order_id,
                 product_id       |-> failed[j].product_id,
                 station_id       |-> failed[j].station_id,
                 operator_id      |-> failed[j].operator_id,
                 date             |-> failed[j].date,
                 shift            |-> failed[j].shift,
                 severity         |-> severity,
                 disposition      |-> options.names[
                     WeightedChoice(Draw(py, 5 * (j - 1) + 1), options.cum)]]]

\* A reworked or scrapped event takes one draw of self.rng for its cost.
BuildFactQualityEvents ==
    /\ simulator = "scada"
    /\ stage = "production"
    /\ LET events == QualityEvents(fact_production, pyRandom)
           costed == {j \in 1..Len(events) : events[j].disposition # "Use-As-Is"}
       IN  /\ fact_quality_events' = events
           /\ rng' = Advance(rng, Cardinality(costed))
           /\ pyRandom' = Advance(pyRandom, 5 * Len(events))
    /\ stage' = "quality"
    /\ UNCHANGED <<sims, simulator, schedVars, orders, fact_sensor_readings,
                   fact_production, fact_alarms, sensor_value, jobOnly,
                 dimVars, downVars, callVars>>

(***************************************************************************)
(* SCADA sensor values.  Quantities inside _generate_sensor_value are in   *)
(* units of 0.0001; its result, rounded to three decimals, in thousandths. *)
(* Bounds alarm_lo / alarm_hi are <<>> for None and <<b>> for a bound b,   *)
(* in thousandths.  Units are spelled in ASCII.                            *)
(***************************************************************************)
Sensor(station, name, unit, baseline, noise_std, dist, lo, hi, degrade) ==
    [station |-> station, name |-> name, unit |-> unit, baseline |-> baseline,
     noise_std |-> noise_std, dist |-> dist, alarm_lo |-> lo, alarm_hi |-> hi,
     degrade |-> degrade]

\* SENSOR_MAP, flattened in declaration order; the position is the number of
\* the sensor_id.
SENSOR_MAP == <<
    Sensor(1, "spindle_speed", "RPM", 80000000, 1200000, "gaussian", <<7200000>>, <<8800000>>, 0),
    Sensor(1, "spindle_vibration", "mm/s", 21000, 1500, "lognormal", <<>>, <<4500>>, 800),
    Sensor(1, "coolant_temp", "degC", 220000, 12000, "gaussian", <<15000>>, <<35000>>, 0),
    Sensor(1, "tool_wear_index", "%", 50000, 5000, "gaussian", <<>>, <<85000>>, 28000),
    Sensor(1, "cutting_force", "N", 4500000, 300000, "gaussian", <<200000>>, <<700000>>, 30000),
    Sensor(2, "solder_temp", "degC", 2450000, 30000, "gaussian", <<230000>>, <<260000>>, 0),
    Sensor(2, "placement_accuracy", "mm", 500, 80, "gaussian", <<>>, <<100>>, 20),
    Sensor(2, "board_voltage", "V", 33000, 200, "gaussian", <<3100>>, <<3500>>, 0),
    Sensor(2, "ambient_temp", "degC", 230000, 8000, "gaussian", <<18000>>, <<28000>>, 0),
    Sensor(3, "winding_torque", "Nm", 18000, 1200, "gaussian", <<1200>>, <<2500>>, 150),
    Sensor(3, "insulation_resistance", "MOhm", 5000000, 200000, "gaussian", <<200000>>, <<>>, -30000),
    Sensor(3, "motor_current", "A", 25000, 1500, "gaussian", <<>>, <<4000>>, 200),
    Sensor(3, "coil_temp", "degC", 550000, 25000, "gaussian", <<>>, <<85000>>, 3000),
    Sensor(4, "joint_torque", "Nm", 120000, 8000, "gaussian", <<8000>>, <<18000>>, 500),
    Sensor(4, "positional_accuracy", "mm", 200, 40, "gaussian", <<>>, <<80>>, 10),
    Sensor(4, "fastener_torque", "Nm", 55000, 3000, "gaussian", <<4000>>, <<7000>>, 0),
    Sensor(4, "vibration", "mm/s", 15000, 1000, "lognormal", <<>>, <<3500>>, 600),
    Sensor(5, "particle_count", "p/m3", 35000000, 4000000, "poisson", <<>>, <<10000000>>, 0),
    Sensor(5, "humidity", "%RH", 420000, 30000, "gaussian", <<30000>>, <<55000>>, 0),
    Sensor(5, "cleanroom_temp", "degC", 210000, 5000, "gaussian", <<19000>>, <<23000>>, 0),
    Sensor(5, "glove_integrity", "score", 980000, 10000, "gaussian", <<90000>>, <<>>, -4000),
    Sensor(6, "repeatability_error", "mm", 100, 30, "gaussian", <<>>, <<50>>, 0),
    Sensor(6, "force_feedback", "N", 20000, 1000, "gaussian", <<1000>>, <<3500>>, 0),
    Sensor(6, "control_latency", "ms", 80000, 5000, "lognormal", <<>>, <<20000>>, 0),
    Sensor(6, "system_voltage", "V", 480000, 3000, "gaussian", <<44000>>, <<52000>>, 0) >>
NumSensors == Len(SENSOR_MAP)

NumScadaOperators == 12                            \* len(OPERATORS)
\* OPERATORS: experience in tenths of a year, by position; the operator's
\* number is its position.
OperatorExperience == <<82, 65, 41, 23, 78, 35, 18, 50, 91, 20, 8, 12>>
OperatorShift(o) == IF o <= 4 THEN "Day" ELSE IF o <= 8 THEN "Swing" ELSE "Night"

\* _build_dim_stations
DimStations == [k \in 1..NumStations |-> [station_id |-> k, line_position |-> k]]

\* Mutant: the sensors are numbered from 1 within each station.
DimSensorsPerStation ==
    [sid \in 1..NumSensors |->
        [sensor_id   |-> <<"SNS", Cardinality({i \in 1..sid :
                             SENSOR_MAP[i].station = SENSOR_MAP[sid].station})>>,
         station_id  |-> SENSOR_MAP[sid].station,
         sensor_name |-> SENSOR_MAP[sid].name,
         unit        |-> SENSOR_MAP[sid].unit,
         alarm_low   |-> SENSOR_MAP[sid].alarm_lo,
         alarm_high  |-> SENSOR_MAP[sid].alarm_hi]]

\* _build_dim_sensors: one row per sensor of SENSOR_MAP, numbered by sid.
DimSensors ==
    [sid \in 1..NumSensors |->
        [sensor_id   |-> <<"SNS", sid>>,
         station_id  |-> SENSOR_MAP[sid].station,
         sensor_name |-> SENSOR_MAP[sid].name,
         unit        |-> SENSOR_MAP[sid].unit,
         alarm_low   |-> SENSOR_MAP[sid].alarm_lo,
         alarm_high  |-> SENSOR_MAP[sid].alarm_hi]]

\* _build_dim_operators: efficiency_rating
\* round(min(1.0, 0.75 + exp * 0.025 + normal(0, 0.02)), 3), in thousandths.
DimOperators(g) ==
    [o \in 1..NumScadaOperators |->
        [operator_id       |-> o,
         primary_shift     |-> OperatorShift(o),
         efficiency_rating |->
             Min2(1000, RoundDiv(1500 + 5 * OperatorExperience[o]
                                   + 4 * NormalTenths(Draw(g, o - 1)), 2))]]

\* Step 1 of run(): the dimension tables.  _build_dim_operators takes one draw
\* of self.rng per operator for efficiency_rating; the others take none.
BuildDimTables ==
    /\ simulator = "scada"
    /\ stage = "new"
    /\ dim_stations' = DimStations
    /\ dim_sensors' = DimSensors
    /\ dim_operators' = DimOperators(rng)
    /\ rng' = Advance(rng, NumScadaOperators)
    /\ stage' = "dimensions"
    /\ UNCHANGED <<pyRandom, sims, simulator, schedVars, scadaTables, n_orders,
                   fact_job_orders, fact_quality, dim_machines, downVars,
                   callVars>>

\* SHIFTS[shift]["noise_mult"], in hundredths.
ShiftNoiseMult(shift) ==
    CASE shift = "Day" -> 100 [] shift = "Swing" -> 108 [] shift = "Night" -> 118

\* _shift_for_hour
ShiftForHour(hour) ==
    IF 6 <= hour /\ hour < 14 THEN "Day"
    ELSE IF 14 <= hour /\ hour < 22 THEN "Swing" ELSE "Night"

\* _daily_thermal_cycle: 1.5 * sin(2 * pi * (hour - 6) / 24), in thousandths.
DailyThermalCycle(hour) ==
    LET a == (hour - 6) % 24
    IN  IF a <= 12 THEN (3 * HalfSine(a, 12)) \div 2
        ELSE 0 - (3 * HalfSine(a - 12, 12)) \div 2

\* 1000 * exp(x / 1000): the quadratic Taylor polynomial for x >= 0 and its
\* reciprocal for x < 0, positive for every x as exp is.
ExpMilli(x) ==
    IF x >= 0 THEN 1000 + x + (x * x) \div 2000
    ELSE 1000000 \div (1000 - x + (x * x) \div 2000)

\* 100 * sqrt(3500): the spread of poisson(baseline) for particle_count.
PoissonSpread == 5916

\* Layers 2, 5 and 6: effective_std.
EffectiveStd(sensor, k, shift, is_rush) ==
    LET s1 == (sensor.noise_std * ShiftNoiseMult(shift)) \div 100
        s2 == IF is_rush THEN (s1 * 27) \div 20 ELSE s1
    IN  IF k = 4 THEN (s2 * 23) \div 20 ELSE s2

\* Layer 1: the noise term, for a standard normal quantile z in tenths.
\* lognormal(mu_ln, sigma_ln) has mean baseline and standard deviation
\* effective_std; sigma_ln is taken as their ratio.
Noise(sensor, k, shift, is_rush, z) ==
    LET std == EffectiveStd(sensor, k, shift, is_rush)
    IN  CASE sensor.dist = "lognormal" ->
               LET cv == (std * 1000) \div sensor.baseline
                   x  == RoundDiv(cv * z, 10) - (cv * cv) \div 2000
               IN  (sensor.baseline * ExpMilli(x)) \div 1000 - sensor.baseline
          [] sensor.dist = "poisson" ->
               LET count == Max2(0 - sensor.baseline \div 10000,
                                 RoundDiv(PoissonSpread * z, 1000))
               IN  count * ShiftNoiseMult(shift) * 100
          [] OTHER -> RoundDiv(std * z, 10)

\* "temp" in name or name == "coil_temp", over the names of SENSOR_MAP.
IsTemp(name) ==
    name \in {"coolant_temp", "solder_temp", "ambient_temp", "coil_temp",
              "cleanroom_temp"}

\* value = baseline + degradation + seasonal + daily + noise, at the instant
\* t = [day, hour, minute].
SensorSum(sensor, k, t, shift, is_rush, md, z) ==
    LET days == DaysSinceLastMaintenance(md, k,
                    [day |-> t.day, minute |-> 60 * t.hour + t.minute])
        seasonal == IF IsTemp(sensor.name) THEN 10 * SeasonalTempOffset(t.day)
                    ELSE IF sensor.name = "humidity"
                    THEN 10 * SeasonalHumidityOffset(t.day)
                    ELSE IF sensor.name = "particle_count"
                    THEN 500 * SeasonalHumidityOffset(t.day)
                    ELSE 0
        daily == IF IsTemp(sensor.name) THEN 10 * DailyThermalCycle(t.hour) ELSE 0
    IN  sensor.baseline + sensor.degrade * days + seasonal + daily
            + Noise(sensor, k, shift, is_rush, z)

NonNegativeUnits == {"mm/s", "mm", "ms", "N", "A", "Nm", "RPM", "p/m3"}

\* The physical clamps.
Clamp(unit, value) ==
    IF unit = "%" THEN Max2(0, Min2(1000000, value))
    ELSE IF unit = "%RH" THEN Max2(150000, Min2(850000, value))
    ELSE IF unit \in NonNegativeUnits THEN Max2(0, value)
    ELSE value

\* Mutant: the clamp is applied before the noise term is added.
GenerateSensorValueClampFirst(sensor, k, t, shift, is_rush, md, z) ==
    LET noise == Noise(sensor, k, shift, is_rush, z)
    IN  RoundDiv(Clamp(sensor.unit,
                       SensorSum(sensor, k, t, shift, is_rush, md, z) - noise)
                    + noise, 10)

\* _generate_sensor_value
GenerateSensorValue(sensor, k, t, shift, is_rush, md, z) ==
    RoundDiv(Clamp(sensor.unit, SensorSum(sensor, k, t, shift, is_rush, md, z)), 10)

\* The arguments a call is followed for: days and hours of the horizon and
\* noise quantiles z (tenths of a standard deviation) from the middle of the
\* distribution to far out in both tails.
CallDays     == {0, 100, 182}
CallHours    == {2, 12}
CallQuantile == {-300, -15, 0, 30, 300}

\* One call self._generate_sensor_value(sensor, station_id, dt, shift, is_rush)
\* on a simulator whose maintenance is scheduled; the noise draw is any z.
CallGenerateSensorValue ==
    /\ simulator = "scada"
    /\ stage = "scheduled"
    /\ sensor_value = <<>>
    /\ scenario_reading = <<>>
    /\ \E sid \in 1..NumSensors, k \in 1..NumStations, day \in CallDays,
          hour \in CallHours, shift \in {"Day", "Swing", "Night"},
          is_rush \in BOOLEAN, z \in CallQuantile :
          LET t == [day |-> day, hour |-> hour, minute |-> 0]
          IN  sensor_value' =
                  [sensor |-> sid, station_id |-> k, dt |-> t, shift |-> shift,
                   is_rush |-> is_rush, z |-> z,
                   value |-> GenerateSensorValue(SENSOR_MAP[sid], k, t, shift,
                                                 is_rush, maintenance_dates, z)]
    /\ UNCHANGED <<pyRandom, sims, simulator, rng, stage, schedVars, orders,
                   fact_sensor_readings, fact_production, fact_quality_events,
                   fact_alarms, jobOnly,
                 dimVars, downVars, callVars>>

\* The point of [lo, hi] nearest to v.
Nearest(lo, hi, v) == IF v < lo THEN lo ELSE IF v > hi THEN hi ELSE v

\* The sum of the five terms for the call recorded in sensor_value.
CallSum ==
    SensorSum(SENSOR_MAP[sensor_value.sensor], sensor_value.station_id,
              sensor_value.dt, sensor_value.shift, sensor_value.is_rush,
              maintenance_dates, sensor_value.z)

\* C10: the value _generate_sensor_value returns lies in [0, 100] for unit %,
\* in [15, 85] for unit %RH and is >= 0 for the units mm/s, mm, ms, N, A, Nm,
\* RPM and p/m3; it is the rounded clamp of the sum of baseline, drift,
\* seasonal, daily and noise terms (the clamp comes after the sum), and the
\* rounded sum itself for every other unit.
C10_PhysicalClamp ==
    sensor_value # <<>> =>
        LET unit == SENSOR_MAP[sensor_value.sensor].unit
            v    == sensor_value.value
        IN  /\ unit = "%" =>
                  /\ 0 <= v /\ v <= 100000
                  /\ v = RoundDiv(Nearest(0, 1000000, CallSum), 10)
            /\ unit = "%RH" =>
                  /\ 15000 <= v /\ v <= 85000
                  /\ v = RoundDiv(Nearest(150000, 850000, CallSum), 10)
            /\ unit \in NonNegativeUnits =>
                  /\ 0 <= v
                  /\ v = RoundDiv(IF CallSum < 0 THEN 0 ELSE CallSum, 10)
            /\ unit \notin NonNegativeUnits \cup {"%", "%RH"} =>
                  v = RoundDiv(CallSum, 10)

\* A call for a % sensor whose sum without the noise is above 100 and whose
\* noise pulls the sum back inside the range.
C10_Witness ==
    /\ sensor_value # <<>>
    /\ SENSOR_MAP[sensor_value.sensor].unit = "%"
    /\ sensor_value.z < 0
    /\ CallSum < 1000000
    /\ CallSum - Noise(SENSOR_MAP[sensor_value.sensor], sensor_value.station_id,
                       sensor_value.shift, sensor_value.is_rush, sensor_value.z)
          > 1000000

\* The noise term of the call recorded in sensor_value, had the call been made
\* at station k2 in shift shift2 with rush flag rush2 and the same draw.
CallNoiseAt(k2, shift2, rush2) ==
    Noise(SENSOR_MAP[sensor_value.sensor], k2, shift2, rush2, sensor_value.z)

\* C11: for every distribution the shift, rush and bottleneck factors are
\* multiplied into one effective noise scale that the single draw uses, and
\* the noise is not rescaled afterwards: two calls with the same draw and the
\* same effective scale have the same noise, and for a draw off the centre
\* the noise changes whenever one factor changes (another shift, the rush
\* flag flipped, STN-04 against another station).
C11_EffectiveScaleBeforeDraw ==
    sensor_value # <<>> =>
        LET sensor == SENSOR_MAP[sensor_value.sensor]
            k      == sensor_value.station_id
            shift  == sensor_value.shift
            rush   == sensor_value.is_rush
            noise  == CallNoiseAt(k, shift, rush)
        IN  /\ \A k2 \in 1..NumStations, shift2 \in {"Day", "Swing", "Night"},
                  rush2 \in BOOLEAN :
                  EffectiveStd(sensor, k2, shift2, rush2)
                      = EffectiveStd(sensor, k, shift, rush)
                  => CallNoiseAt(k2, shift2, rush2) = noise
            /\ sensor_value.z # 0 =>
                  /\ \A shift2 \in {"Day", "Swing", "Night"} \ {shift} :
                        CallNoiseAt(k, shift2, rush) # noise
                  /\ CallNoiseAt(k, shift, ~rush) # noise
                  /\ \A k2 \in 1..NumStations :
                        (k2 = 4) # (k = 4) => CallNoiseAt(k2, shift, rush) # noise

(***************************************************************************)
(* SCADA sensor readings and alarms.                                       *)
(***************************************************************************)
\* The hours of range(6, 24) and the offsets of range(0, 4) the reading loops
\* are followed for, at minute 0 of range(0, 60, step); hour 22 is in both.
SampledHours        == <<6, 14, 22>>
SampledNightOffsets == <<0, 2>>

\* The instants of one day and station, in loop order: the operating hours,
\* then the night hours, which pass midnight into the next calendar day.
ReadingInstants(day) ==
    [i \in 1..Len(SampledHours) |->
        [day |-> day, hour |-> SampledHours[i], minute |-> 0,
         shift |-> ShiftForHour(SampledHours[i])]]
    \o [i \in 1..Len(SampledNightOffsets) |->
        LET hour == (22 + SampledNightOffsets[i]) % 24
        IN  [day |-> IF hour >= 22 THEN day ELSE day + 1, hour |-> hour,
             minute |-> 0, shift |-> "Night"]]

\* SENSOR_MAP[station_id], as sensor numbers.
SensorsOf(k) ==
    SelectSeq([i \in 1..NumSensors |-> i], LAMBDA i : SENSOR_MAP[i].station = k)

\* rush_days: the days with a Rush or Critical order.
RushDays(ords) ==
    {ords[i].date : i \in {i \in 1..Len(ords) : IsRush(ords[i].priority)}}

\* The rows of one day and station; each takes one draw of self.rng.
StationReadings(day, k, rush, md, g) ==
    LET sens == SensorsOf(k)
        inst == ReadingInstants(day)
    IN  [m \in 1..(Len(inst) * Len(sens)) |->
            LET t   == inst[((m - 1) \div Len(sens)) + 1]
                sid == sens[((m - 1) % Len(sens)) + 1]
            IN  [timestamp   |-> [day |-> t.day, hour |-> t.hour, minute |-> t.minute],
                 date        |-> day,
                 station_id  |-> k,
                 sensor_id   |-> <<"SNS", sid>>,
                 sensor_name |-> SENSOR_MAP[sid].name,
                 value       |-> GenerateSensorValue(SENSOR_MAP[sid], k, t, t.shift,
                                     rush, md, NormalTenths(Draw(g, m - 1))),
                 unit        |-> SENSOR_MAP[sid].unit,
                 shift       |-> t.shift]]

\* The loops of _build_fact_sensor_readings over the days and the stations.
RECURSIVE ReadingsLoop(_, _, _, _, _, _, _)
ReadingsLoop(days, di, k, rush_days, md, g, acc) ==
    IF di > Len(days) THEN [rows |-> acc, g |-> g]
    ELSE IF k > NumStations
    THEN ReadingsLoop(days, di + 1, 1, rush_days, md, g, acc)
    ELSE LET rows == StationReadings(days[di], k, days[di] \in rush_days, md, g)
         IN  ReadingsLoop(days, di, k + 1, rush_days, md,
                          Advance(g, Len(rows)), acc \o rows)

BuildFactSensorReadings ==
    /\ simulator = "scada"
    /\ stage = "ordered"
    /\ LET r == ReadingsLoop(LoopDays, 1, 1, RushDays(orders), maintenance_dates,
                             rng, <<>>)
       IN  /\ fact_sensor_readings' = r.rows
           /\ rng' = r.g
    /\ stage' = "readings"
    /\ UNCHANGED <<pyRandom, sims, simulator, schedVars, orders, fact_production,
                   fact_quality_events, fact_alarms, sensor_value, jobOnly,
                 dimVars, downVars, callVars>>

(***************************************************************************)
(* The two sampling loops of _build_fact_sensor_readings, one instant at a *)
(* time, for one day and station.                                          *)
(***************************************************************************)
\* range(start, stop, step), in order.
Range(start, stop, step) ==
    [i \in 1..((stop - start + step - 1) \div step) |-> start + (i - 1) * step]

SampleInterval == 5                                 \* sample_interval
NightInterval  == 10                                \* the step of the night loop
OperatingHours == Range(6, 24, 1)                   \* for hour in range(6, 24)
NightOffsets   == Range(0, 4, 1)                    \* for hour_offset in range(0, 4)
OperatingMinutes == Range(0, 60, SampleInterval)
NightMinutes     == Range(0, 60, NightInterval)

\* The position after iteration (h, m) of a loop over hours and minutes.
NextPosition(h, m, hours, minutes, after) ==
    IF m < Len(minutes) THEN [loop |-> "same", h |-> h, m |-> m + 1]
    ELSE IF h < Len(hours) THEN [loop |-> "same", h |-> h + 1, m |-> 1]
    ELSE [loop |-> after, h |-> 1, m |-> 1]

\* `for day_idx, day in enumerate(self.workdays)`: one day is entered.
BeginDay ==
    /\ simulator = "scada"
    /\ sampling = <<>>
    /\ \E i \in 1..Len(LoopDays) :
          sampling' = [day |-> LoopDays[i], loop |-> "operating", h |-> 1,
                       m |-> 1, operating |-> 0, night |-> 0,
                       timestamp |-> <<>>, date |-> <<>>, by |-> "none"]
    /\ UNCHANGED <<pyRandom, sims, simulator, rng, stage, schedVars,
                   scadaTables, jobOnly, dimVars, downVars, probabilities,
                   scenario_reading, calls>>

\* One iteration of the 5-minute loop: each sensor of the station gets one row
\* with this timestamp.
SampleOperating ==
    /\ sampling # <<>>
    /\ sampling.loop = "operating"
    /\ LET hour   == OperatingHours[sampling.h]
           minute == OperatingMinutes[sampling.m]
           nxt    == NextPosition(sampling.h, sampling.m, OperatingHours,
                                  OperatingMinutes, "night")
       IN  sampling' =
               [sampling EXCEPT
                   !.timestamp = [day |-> sampling.day, hour |-> hour,
                                  minute |-> minute],
                   !.date = sampling.day,
                   !.by = "operating",
                   !.operating = @ + 1,
                   !.loop = IF nxt.loop = "same" THEN @ ELSE nxt.loop,
                   !.h = nxt.h,
                   !.m = nxt.m]
    /\ UNCHANGED <<pyRandom, sims, simulator, rng, stage, schedVars,
                   scadaTables, jobOnly, dimVars, downVars, probabilities,
                   scenario_reading, calls>>

\* One iteration of the night loop.
SampleNight ==
    /\ sampling # <<>>
    /\ sampling.loop = "night"
    /\ LET hour     == (22 + NightOffsets[sampling.h]) % 24
           next_day == IF hour >= 22 THEN sampling.day ELSE sampling.day + 1
           minute   == NightMinutes[sampling.m]
           nxt      == NextPosition(sampling.h, sampling.m, NightOffsets,
                                    NightMinutes, "done")
       IN  sampling' =
               [sampling EXCEPT
                   !.timestamp = [day |-> next_day, hour |-> hour,
                                  minute |-> minute],
                   !.date = sampling.day,
                   !.by = "night",
                   !.night = @ + 1,
                   !.loop = IF nxt.loop = "same" THEN @ ELSE nxt.loop,
                   !.h = nxt.h,
                   !.m = nxt.m]
    /\ UNCHANGED <<pyRandom, sims, simulator, rng, stage, schedVars,
                   scadaTables, jobOnly, dimVars, downVars, probabilities,
                   scenario_reading, calls>>

\* C21: the 5-minute loop gives each sensor exactly 192 readings a working
\* day, all stamped from 06:00 up to but not including 22:00, and a reading
\* stamped from 22:00 to 02:00 comes from the night loop, on a 10-minute grid.
C21_OperatingLoopStopsAt22 ==
    (sampling # <<>> /\ sampling.timestamp # <<>>) =>
        /\ sampling.by = "operating" =>
              /\ sampling.timestamp.hour >= 6
              /\ sampling.timestamp.hour < 22
        /\ sampling.loop # "operating" => sampling.operating = 192
        /\ (sampling.timestamp.hour >= 22 \/ sampling.timestamp.hour < 2) =>
              /\ sampling.by = "night"
              /\ sampling.timestamp.minute % NightInterval = 0

\* Mutant: the lookup is keyed by station, so every sensor of a station gets
\* the bounds of the station's first sensor.
ThresholdsByStation(name) ==
    LET i == CHOOSE i \in 1..NumSensors : SENSOR_MAP[i].name = name
        f == CHOOSE f \in 1..NumSensors :
                /\ SENSOR_MAP[f].station = SENSOR_MAP[i].station
                /\ \A j \in 1..(f - 1) : SENSOR_MAP[j].station # SENSOR_MAP[i].station
    IN  [lo |-> SENSOR_MAP[f].alarm_lo, hi |-> SENSOR_MAP[f].alarm_hi]

\* thresholds[sensor_name]: the bounds of the last sensor of that name.
Thresholds(name) ==
    LET i == CHOOSE i \in 1..NumSensors :
                /\ SENSOR_MAP[i].name = name
                /\ \A j \in (i + 1)..NumSensors : SENSOR_MAP[j].name # name
    IN  [lo |-> SENSOR_MAP[i].alarm_lo, hi |-> SENSOR_MAP[i].alarm_hi]

\* The breach test of _build_fact_alarms for the bounds th: "" when the value
\* does not breach.
BreachType(th, value) ==
    IF th.lo # <<>> /\ value < th.lo[1] THEN "Low"
    ELSE IF th.hi # <<>> /\ value > th.hi[1] THEN "High"
    ELSE ""

\* The breach test for a row of fact_sensor_readings.
AlarmType(row) == BreachType(Thresholds(row.sensor_name), row.value)

\* tool_wear_index (baseline 5.0, degrade 2.8 per day) configured with
\* alarm_hi = 100 and the given unit.
HighAlarmSignal(unit) ==
    Sensor(1, "tool_wear_index", unit, 50000, 5000, "gaussian", <<>>, <<100000>>,
           28000)

\* The units the signal is configured with and the days it is read on, from
\* the first day of the horizon to the last.
ScenarioUnits == {"%", "degC", "mm"}
ScenarioDays  == <<0, 45, 91, 136, SimEndDay>>

\* The signal is configured, on a simulator whose stations are not maintained
\* in the horizon (days_since_maintenance counts from SIM_START).
ConfigureSignal ==
    /\ simulator = "scada"
    /\ stage = "new"
    /\ scenario_reading = <<>>
    /\ \E unit \in ScenarioUnits :
          scenario_reading' = [unit |-> unit, read |-> 0, value |-> <<>>,
                               high_alarms |-> 0]
    /\ UNCHANGED <<pyRandom, sims, simulator, rng, stage, schedVars,
                   scadaTables, jobOnly, dimVars, downVars, probabilities,
                   sampling, calls>>

\* The next reading of the signal, at noon of the next scenario day, and the
\* breach test of _build_fact_alarms on it; the noise draw is any z.
ReadSignal ==
    /\ scenario_reading # <<>>
    /\ scenario_reading.read < Len(ScenarioDays)
    /\ \E z \in CallQuantile :
          LET sensor == HighAlarmSignal(scenario_reading.unit)
              t      == [day |-> ScenarioDays[scenario_reading.read + 1],
                         hour |-> 12, minute |-> 0]
              value  == GenerateSensorValue(sensor, sensor.station, t, "Day",
                                            FALSE, maintenance_dates, z)
              type   == BreachType([lo |-> sensor.alarm_lo, hi |-> sensor.alarm_hi],
                                   value)
          IN  scenario_reading' =
                  [scenario_reading EXCEPT
                      !.read = @ + 1,
                      !.value = <<value>>,
                      !.high_alarms = IF type = "High" THEN @ + 1 ELSE @]
    /\ UNCHANGED <<pyRandom, sims, simulator, rng, stage, schedVars,
                   scadaTables, jobOnly, dimVars, downVars, probabilities,
                   sampling, calls>>

\* C18: for a signal configured with alarm_high = 100 and a positive
\* degradation rate, whatever its unit, once enough maintenance-free days
\* have passed that baseline plus drift exceeds 100, the readings generated
\* before the horizon ends produce at least one High alarm: when the last
\* day of the horizon has been read, a High alarm has been raised.
C18_DriftRaisesHighAlarm ==
    (scenario_reading # <<>> /\ scenario_reading.read = Len(ScenarioDays)) =>
        /\ 50000 + 28000 * ScenarioDays[Len(ScenarioDays)] > 1000000
        /\ scenario_reading.high_alarms >= 1

\* Mutant: only the first breach of a sensor on a day raises an alarm.
AlarmsOncePerDay(readings) ==
    LET breaching == SelectSeq([n \in 1..Len(readings) |-> n],
                        LAMBDA n :
                            /\ AlarmType(readings[n]) # ""
                            /\ \A m \in 1..(n - 1) :
                                  \/ AlarmType(readings[m]) = ""
                                  \/ readings[m].sensor_id # readings[n].sensor_id
                                  \/ readings[m].date # readings[n].date)
    IN  [j \in 1..Len(breaching) |->
            LET row == readings[breaching[j]]
            IN  [alarm_id    |-> <<"ALM", j>>,
                 timestamp   |-> row.timestamp,
                 date        |-> row.date,
                 station_id  |-> row.station_id,
                 sensor_id   |-> row.sensor_id,
                 sensor_name |-> row.sensor_name,
                 alarm_type  |-> AlarmType(row),
                 value       |-> row.value,
                 threshold   |-> IF AlarmType(row) = "Low"
                                 THEN Thresholds(row.sensor_name).lo[1]
                                 ELSE Thresholds(row.sensor_name).hi[1],
                 shift       |-> row.shift]]

\* Mutant: the alarm counter advances with every reading, breaching or not.
AlarmsNumberedByReading(readings) ==
    LET breaching == SelectSeq([n \in 1..Len(readings) |-> n],
                               LAMBDA n : AlarmType(readings[n]) # "")
    IN  [j \in 1..Len(breaching) |->
            LET row == readings[breaching[j]]
            IN  [alarm_id    |-> <<"ALM", breaching[j]>>,
                 timestamp   |-> row.timestamp,
                 date        |-> row.date,
                 station_id  |-> row.station_id,
                 sensor_id   |-> row.sensor_id,
                 sensor_name |-> row.sensor_name,
                 alarm_type  |-> AlarmType(row),
                 value       |-> row.value,
                 threshold   |-> IF AlarmType(row) = "Low"
                                 THEN Thresholds(row.sensor_name).lo[1]
                                 ELSE Thresholds(row.sensor_name).hi[1],
                 shift       |-> row.shift]]

\* _build_fact_alarms(fact_sensor): one alarm per breaching row, in row order.
Alarms(readings) ==
    LET breaching == SelectSeq(readings, LAMBDA row : AlarmType(row) # "")
    IN  [j \in 1..Len(breaching) |->
            LET row == breaching[j]
            IN  [alarm_id    |-> <<"ALM", j>>,
                 timestamp   |-> row.timestamp,
                 date        |-> row.date,
                 station_id  |-> row.station_id,
                 sensor_id   |-> row.sensor_id,
                 sensor_name |-> row.sensor_name,
                 alarm_type  |-> AlarmType(row),
                 value       |-> row.value,
                 threshold   |-> IF AlarmType(row) = "Low"
                                 THEN Thresholds(row.sensor_name).lo[1]
                                 ELSE Thresholds(row.sensor_name).hi[1],
                 shift       |-> row.shift]]

\* Step 8 of run(): _build_fact_alarms reads the readings alone and takes no
\* draw.
BuildFactAlarms ==
    /\ simulator = "scada"
    /\ stage = "downtime"
    /\ fact_alarms' = Alarms(fact_sensor_readings)
    /\ stage' = "alarms"
    /\ UNCHANGED <<pyRandom, sims, simulator, rng, schedVars, orders,
                   fact_sensor_readings, fact_production, fact_quality_events,
                   sensor_value, jobOnly,
                 dimVars, downVars, callVars>>

(***************************************************************************)
(* SCADA downtime and the probabilities compared against a uniform draw.   *)
(***************************************************************************)
\* Mutant: the keep probability without its cap.
KeepProbUncapped(days) == 30 + 4 * days

\* keep_prob = min(1.0, 0.3 + days_maint * 0.04), in hundredths.
KeepProb(days) == Min2(100, 30 + 4 * days)

\* The values of days_maint the two probabilities are evaluated at: from a
\* station maintained that day to one never maintained in the whole horizon.
MaintenanceAges == {0, 1, 18, 90, SimEndDay}

\* defect_rate (_build_fact_production) and keep_prob (_build_fact_downtime)
\* evaluated at two values of days_maint, everything else held fixed.
EvalProbabilities ==
    /\ simulator = "scada"
    /\ probabilities = <<>>
    /\ \E k \in 1..NumStations, shift \in {"Day", "Swing", "Night"},
          rush \in BOOLEAN, day \in 0..SimEndDay,
          d1 \in MaintenanceAges, d2 \in MaintenanceAges :
          /\ d1 <= d2
          /\ probabilities' =
                 [station_id |-> k, shift |-> shift, is_rush |-> rush,
                  day |-> day, days1 |-> d1, days2 |-> d2,
                  humidity |-> Humidity(day),
                  penalty |-> EnvironmentalPenalty(k, day),
                  defect_rate1 |-> DefectRateAt(k, shift, rush, day, d1),
                  defect_rate2 |-> DefectRateAt(k, shift, rush, day, d2),
                  keep_prob1 |-> KeepProb(d1), keep_prob2 |-> KeepProb(d2)]
    /\ UNCHANGED <<pyRandom, sims, simulator, rng, stage, schedVars,
                   scadaTables, jobOnly, dimVars, downVars, scenario_reading,
                   sampling, calls>>

\* C28: the humidity used for the cleanroom station STN-05, 42 plus the
\* seasonal offset, never exceeds 52 on any date, so the penalty on its defect
\* rate is only ever 1 or 1.5 and never 2.5; the other stations never get a
\* penalty.  (Humidity in thousandths, the penalty in halves.)
C28_HumidityPenaltyTiers ==
    probabilities # <<>> =>
        /\ probabilities.humidity <= 52000
        /\ probabilities.station_id = 5 => probabilities.penalty \in {2, 3}
        /\ probabilities.station_id # 5 => probabilities.penalty = 2
        /\ probabilities.defect_rate1.num
              = BaseDefectRate[probabilities.station_id]
                  * (IF probabilities.is_rush THEN 18 ELSE 10)
                  * probabilities.penalty * (125 + probabilities.days1)

\* The cleanroom station at the humidity peak of June, just under 52 %RH,
\* with the 1.5 penalty.
C28_Witness ==
    /\ probabilities # <<>>
    /\ probabilities.station_id = 5
    /\ probabilities.humidity > 51900
    /\ probabilities.penalty = 3
    /\ MonthOf(probabilities.day) = 6

\* a <= b for two defect rates; their denominators are multiples of 25000.
FracLeq(a, b) == a.num * (b.den \div 25000) <= b.num * (a.den \div 25000)

\* C12: with station, shift, priority and date fixed, a larger
\* days_since_maintenance never gives a smaller defect probability nor a
\* smaller keep probability: for d1 < d2, defect_rate(d1) <= defect_rate(d2)
\* and keep_prob(d1) <= keep_prob(d2).
C12_MonotoneInMaintenanceAge ==
    (probabilities # <<>> /\ probabilities.days1 < probabilities.days2) =>
        /\ FracLeq(probabilities.defect_rate1, probabilities.defect_rate2)
        /\ probabilities.keep_prob1 <= probabilities.keep_prob2

\* Two maintenance ages at which both probabilities differ.
C12_Witness ==
    /\ probabilities # <<>>
    /\ probabilities.days1 < probabilities.days2
    /\ ~FracLeq(probabilities.defect_rate2, probabilities.defect_rate1)
    /\ probabilities.keep_prob1 < probabilities.keep_prob2

\* C19: the probabilities compared against a uniform draw lie in [0, 1]: the
\* defect_rate and the keep_prob, for every station, shift, priority and date
\* and every days_since_maintenance from 0 to the length of the horizon.
C19_ProbabilitiesInUnitInterval ==
    probabilities # <<>> =>
        /\ \A r \in {probabilities.defect_rate1, probabilities.defect_rate2} :
               0 <= r.num /\ r.num <= r.den
        /\ \A q \in {probabilities.keep_prob1, probabilities.keep_prob2} :
               0 <= q /\ q <= 100

\* A rush job in the night shift at the cleanroom station in the humid
\* season, never maintained in the whole horizon: the largest defect_rate,
\* and a keep_prob that the cap holds at 1.
C19_Witness ==
    /\ probabilities # <<>>
    /\ probabilities.days2 = SimEndDay
    /\ probabilities.station_id = 5
    /\ probabilities.is_rush
    /\ probabilities.shift = "Night"
    /\ 42000 + SeasonalHumidityOffset(probabilities.day) > 50000
    /\ probabilities.keep_prob2 = 100
    /\ 30 + 4 * probabilities.days2 > 100

\* DOWNTIME_CATS in declaration order: the category names, avg_hrs and
\* monthly_freq in tenths, and scheduled.
DowntimeCategories ==
    <<"Planned Maintenance", "Unplanned Breakdown", "Tooling Change",
      "Material Shortage", "Quality Hold", "Calibration">>
DowntimeAvgHrs      == <<20, 35, 5, 30, 15, 10>>
DowntimeMonthlyFreq == <<20, 8, 50, 3, 4, 10>>
DowntimeScheduled   == <<TRUE, FALSE, TRUE, FALSE, FALSE, TRUE>>
NumCategories       == Len(DowntimeCategories)

\* SIM_START and SIM_END, as year and month.
SIM_START == [year |-> 2024, month |-> 4]
SIM_END   == [year |-> 2024, month |-> 9]
\* self.total_months.
TotalMonths ==
    (SIM_END.year - SIM_START.year) * 12 + (SIM_END.month - SIM_START.month) + 1

\* The integer square root of n > 0, by Newton's iteration from x >= sqrt(n).
RECURSIVE Newton(_, _)
Newton(n, x) ==
    IF (x + n \div x) \div 2 >= x THEN x ELSE Newton(n, (x + n \div x) \div 2)
IntSqrt(n) == Newton(n, n)

\* rng.poisson(mean) for a mean in hundredths, as the quantile of the raw draw
\* u: the mean plus the draw's standard normal quantile times sqrt(mean),
\* never below 0.
Poisson(u, mean) ==
    Max2(0, RoundDiv(mean + IntSqrt(mean) * NormalTenths(u), 100))

\* freq * self.total_months, in hundredths; freq *= 1.6 for the unplanned
\* breakdowns of STN-04.
EventsMean(k, c) ==
    IF k = 4 /\ DowntimeCategories[c] = "Unplanned Breakdown"
    THEN DowntimeMonthlyFreq[c] * 16 * TotalMonths
    ELSE DowntimeMonthlyFreq[c] * 10 * TotalMonths

\* Mutant: a breakdown candidate is dropped when the draw is below keep_prob.
DroppedBelow(u, keep_prob) == u * 100 < 8 * keep_prob

\* if self.rng.random() > keep_prob: continue
Dropped(u, keep_prob) == u * 100 > 8 * keep_prob

\* for _ in range(n_events): the candidates of station k and category c that
\* are left to draw.  acc holds the rows so far, the candidates of this
\* (station, category) so far and the generator.
RECURSIVE CandidatesLoop(_, _, _, _, _)
CandidatesLoop(md, k, c, todo, acc) ==
    IF todo = 0 THEN acc
    ELSE LET g         == acc.g
             day       == (Draw(g, 0) * SimEndDay) \div 8
             unplanned == DowntimeCategories[c] = "Unplanned Breakdown"
             u         == Draw(g, 1)
             keep_prob == KeepProb(DaysSinceLastMaintenance(md, k,
                                       [day |-> day, minute |-> 0]))
             at        == IF unplanned THEN 2 ELSE 1
             avg       == DowntimeAvgHrs[c]
             duration  == Max2(25, 10 * avg
                                   + RoundDiv(3 * avg * NormalTenths(Draw(g, at)), 10))
             hour      == Integers_(Draw(g, at + 1), 6, 22)
             taken     == at + 2 + (IF DowntimeScheduled[c] THEN 0 ELSE 1)
             row       == [downtime_id |-> <<"DT", Len(acc.rows) + 1>>,
                           station_id |-> k, date |-> day, start_hour |-> hour,
                           shift |-> ShiftForHour(hour),
                           downtime_category |-> DowntimeCategories[c],
                           is_scheduled |-> DowntimeScheduled[c],
                           duration_hours |-> duration]
         IN  IF Weekday(day) >= 5
             THEN CandidatesLoop(md, k, c, todo - 1,
                      [acc EXCEPT !.g = Advance(g, 1),
                                  !.cands = Append(@, [date |-> day, draw |-> <<>>,
                                                       kept |-> FALSE])])
             ELSE IF unplanned /\ Dropped(u, keep_prob)
             THEN CandidatesLoop(md, k, c, todo - 1,
                      [acc EXCEPT !.g = Advance(g, 2),
                                  !.cands = Append(@, [date |-> day, draw |-> <<u>>,
                                                       kept |-> FALSE])])
             ELSE CandidatesLoop(md, k, c, todo - 1,
                      [acc EXCEPT !.g = Advance(g, taken),
                                  !.rows = Append(@, row),
                                  !.cands = Append(@,
                                      [date |-> day,
                                       draw |-> IF unplanned THEN <<u>> ELSE <<>>,
                                       kept |-> TRUE])])

\* The end of one pass of "for cat, spec in DOWNTIME_CATS.items()": r is the
\* state after the candidates of station k and category c; on to the next
\* (station, category).
CategoryDone(k, c, n_events, r) ==
    [r EXCEPT !.log = Append(@,
                  [station_id |-> k, category |-> DowntimeCategories[c],
                   mean |-> EventsMean(k, c),
                   n_events |-> n_events, candidates |-> r.cands]),
              !.k = IF c = NumCategories THEN k + 1 ELSE k,
              !.c = IF c = NumCategories THEN 1 ELSE c + 1]

\* for _ in range(n_events), for the (station, category) acc.k, acc.c.  Of
\* the n_events candidates of a pair the first MaxEvents are followed.
CategoryEvents(md, acc, n_events) ==
    CategoryDone(acc.k, acc.c, n_events,
        CandidatesLoop(md, acc.k, acc.c, Min2(n_events, MaxEvents),
            [acc EXCEPT !.g = Advance(@, 1), !.cands = <<>>]))

\* n_events = max(0, int(self.rng.poisson(freq * self.total_months))) and the
\* pass it starts.
CategoryStep(md, acc) ==
    CategoryEvents(md, acc, Poisson(Draw(acc.g, 0), EventsMean(acc.k, acc.c)))

\* for station in STATIONS: for cat, spec in DOWNTIME_CATS.items()
RECURSIVE DowntimeLoop(_, _)
DowntimeLoop(md, acc) ==
    IF acc.k > NumStations THEN acc ELSE DowntimeLoop(md, CategoryStep(md, acc))

\* Step 7 of run(): _build_fact_downtime.
BuildFactDowntime ==
    /\ simulator = "scada"
    /\ stage = "quality"
    /\ LET r == DowntimeLoop(maintenance_dates,
                    [k |-> 1, c |-> 1, rows |-> <<>>, cands |-> <<>>,
                     log |-> <<>>, g |-> rng])
       IN  /\ fact_downtime' = r.rows
           /\ downtime_candidates' = r.log
           /\ rng' = r.g
    /\ stage' = "downtime"
    /\ UNCHANGED <<pyRandom, sims, simulator, schedVars, scadaTables, jobOnly,
                   dimVars, callVars>>

\* The rows of fact_downtime of one station and category, by position.
DowntimeRowsOf(k, cat) ==
    {n \in 1..Len(fact_downtime) :
        fact_downtime[n].station_id = k /\ fact_downtime[n].downtime_category = cat}

\* The candidates of an entry of downtime_candidates that became rows.
KeptOf(e) == {i \in 1..Len(e.candidates) : e.candidates[i].kept}

\* C13: in SCADA downtime generation the Poisson draw bounds the events: each
\* (station, category) has at most n_events rows in fact_downtime, one per
\* candidate that was not dropped; an Unplanned Breakdown candidate on a
\* weekday is dropped exactly when the uniform draw exceeds
\* min(1, 0.3 + 0.04 * days_since_maintenance at its date); a candidate of
\* any other category is dropped only when its date is a weekend.
C13_DowntimeCandidates ==
    (simulator = "scada" /\ stage \in {"downtime", "alarms"}) =>
        \A p \in 1..Len(downtime_candidates) :
            LET e == downtime_candidates[p]
            IN  /\ Cardinality(DowntimeRowsOf(e.station_id, e.category)) <= e.n_events
                /\ Cardinality(DowntimeRowsOf(e.station_id, e.category))
                      = Cardinality(KeptOf(e))
                /\ \A i \in 1..Len(e.candidates) :
                      LET cand == e.candidates[i]
                          days == DaysSinceLastMaintenance(maintenance_dates,
                                      e.station_id,
                                      [day |-> cand.date, minute |-> 0])
                      IN  IF e.category = "Unplanned Breakdown"
                          THEN Weekday(cand.date) < 5 =>
                                  (~cand.kept <=>
                                      cand.draw[1] * 100 > 8 * Min2(100, 30 + 4 * days))
                          ELSE ~cand.kept => Weekday(cand.date) >= 5

\* A finished downtime table for which a breakdown candidate on a weekday
\* was dropped and another kept although its keep probability was below 1,
\* a candidate of another category fell on a weekend, and some
\* (station, category) drew no event at all.
C13_Witness ==
    /\ simulator = "scada"
    /\ stage = "downtime"
    /\ \E p \in 1..Len(downtime_candidates) :
          downtime_candidates[p].n_events = 0
    /\ \E p \in 1..Len(downtime_candidates) :
          LET e == downtime_candidates[p]
          IN  /\ e.category = "Unplanned Breakdown"
              /\ \E i \in 1..Len(e.candidates) :
                    /\ Weekday(e.candidates[i].date) < 5
                    /\ ~e.candidates[i].kept
    /\ \E p \in 1..Len(downtime_candidates) :
          LET e == downtime_candidates[p]
          IN  /\ e.category = "Unplanned Breakdown"
              /\ \E i \in 1..Len(e.candidates) :
                    /\ e.candidates[i].kept
                    /\ KeepProb(DaysSinceLastMaintenance(maintenance_dates,
                           e.station_id,
                           [day |-> e.candidates[i].date, minute |-> 0])) < 100
    /\ \E p \in 1..Len(downtime_candidates) :
          LET e == downtime_candidates[p]
          IN  /\ e.category # "Unplanned Breakdown"
              /\ \E i \in 1..Len(e.candidates) :
                    Weekday(e.candidates[i].date) >= 5

(***************************************************************************)
(* The job-shop simulator: dimensions, job orders, production, quality.    *)
(* Times are tenths of a minute since START_DATE 00:00 (a Monday).         *)
(***************************************************************************)
JobEndDay == 730                                   \* END_DATE - START_DATE
DayTenths == 24 * 60 * 10

\* An exponential draw of mean 30 minutes, in tenths of a minute.
Exponential30(u) == <<0, 40, 86, 141, 208, 294, 416, 624>>[u + 1]
\* random.choice over a sequence of more than 8 entries takes two raw draws:
\* their 64 values are spread evenly over the n positions, from the first to
\* the last, both of which random.choice can return.
ChoiceIndexWide(u1, u2, n) == ((8 * u1 + u2) * (n - 1)) \div 63 + 1

\* MACHINE_SPECS in declaration order: count, avg_cycle_min, variability (in
\* hundredths).
MachineTypes == <<"CNC Mill", "CNC Lathe", "Drill Press", "Surface Grinder",
                  "Assembly Station", "Inspection Station">>
MachineCount       == <<4, 3, 3, 2, 4, 2>>
MachineAvgCycle    == <<45, 35, 20, 30, 60, 15>>
MachineVariability == <<15, 12, 10, 18, 20, 8>>
\* machines_by_type[t], as machine numbers: ids are given in declaration order.
RECURSIVE FirstMachine(_)
FirstMachine(t) == IF t = 1 THEN 1 ELSE FirstMachine(t - 1) + MachineCount[t - 1]
NumMachines == FirstMachine(Len(MachineCount) + 1) - 1

\* PRODUCT_CATALOG in declaration order: routing (machine types by position)
\* and cumulative priority weights in hundredths.
Routing ==
    << <<1, 3, 4, 6>>, <<2, 4, 5, 6>>, <<1, 3, 2, 6>>, <<2, 4, 6>>,
       <<1, 3, 5, 6>>, <<2, 3, 4, 6>>, <<1, 3, 3, 4, 6>>, <<1, 3, 5, 6>> >>
PriorityWeights ==
    << <<60, 85, 100>>, <<70, 90, 100>>, <<50, 80, 100>>, <<65, 90, 100>>,
       <<55, 85, 100>>, <<75, 95, 100>>, <<50, 80, 100>>, <<80, 95, 100>> >>
NumProducts == Len(Routing)
NumJobOperators == 16                              \* len(OPERATOR_NAMES)
NumCustomers == 8                                  \* len(CUSTOMERS)
Quantities == <<1, 2, 5, 10, 20, 50>>

\* _build_dim_operators: efficiency_rating per operator, in hundredths.  Each
\* operator takes three draws of self.rng (hire date, certifications, noise)
\* after the two draws per machine of _build_dim_machines.
EfficiencyRating(g, o) ==
    LET base  == 2 * NumMachines + 3 * (o - 1)
        days  == Integers_(Draw(g, base), 180, 3650)
        years == RoundDiv(10 * days, 365)                      \* in tenths
        noise == 4 * NormalTenths(Draw(g, base + 2))           \* thousandths
    IN  RoundDiv(Min2(1000, 700 + 3 * years + noise), 10)

\* The machine type of machine m.
MachineTypeOf(m) ==
    CHOOSE t \in 1..Len(MachineCount) :
        FirstMachine(t) <= m /\ m < FirstMachine(t + 1)

\* _build_dim_machines: machine m takes two draws of self.rng, for
\* age_years = round(uniform(1, 15), 1), in tenths, and for the noise of
\* condition_score = round(max(0.5, 1.0 - age_years * 0.03 + normal(0, 0.05)), 2),
\* in hundredths.  machine_id is the number of "MCH-%03d".
DimMachine(g, m) ==
    LET age   == 10 + RoundDiv(140 * Draw(g, 2 * (m - 1)), 8)
        noise == 5 * NormalTenths(Draw(g, 2 * (m - 1) + 1))    \* thousandths
    IN  [machine_id      |-> m,
         machine_type    |-> MachineTypes[MachineTypeOf(m)],
         age_years       |-> age,
         condition_score |-> RoundDiv(Max2(500, 1000 - 3 * age + noise), 10)]

\* operator_efficiency = dict(zip(operator_id, efficiency_rating))
OperatorEfficiency(ops) == [o \in 1..Len(ops) |-> ops[o].efficiency_rating]

\* The five dimension builders of run(): machines, products, operators,
\* customers, dates.  Operators take one draw of the module generator each,
\* customers three each.
BuildDimensions ==
    /\ simulator = "jobshop"
    /\ stage = "new"
    /\ dim_machines' = [m \in 1..NumMachines |-> DimMachine(rng, m)]
    /\ dim_operators' =
          [o \in 1..NumJobOperators |->
              [operator_id |-> o, efficiency_rating |-> EfficiencyRating(rng, o)]]
    /\ rng' = Advance(rng, 2 * NumMachines + 3 * NumJobOperators)
    /\ pyRandom' = Advance(pyRandom, NumJobOperators + 3 * NumCustomers)
    /\ stage' = "dimensions"
    /\ UNCHANGED <<sims, simulator, scadaState, fact_production,
                   n_orders, fact_job_orders, fact_quality,
                   dim_stations, dim_sensors, downVars, callVars>>

\* C20: the condition score of every machine is clamped into a closed bound:
\* for every age in [1, 15] years and every noise draw, the condition_score
\* written to dim_machines is at least 0.5 and at most 1.0.
C20_ConditionScoreBounded ==
    \A m \in 1..Len(dim_machines) :
        /\ 10 <= dim_machines[m].age_years /\ dim_machines[m].age_years <= 150
        /\ 50 <= dim_machines[m].condition_score
        /\ dim_machines[m].condition_score <= 100

\* One row of _build_fact_job_orders.  A job takes five draws of the module
\* generator (product, priority, order date twice, customer) and one of
\* self.rng (quantity).
JobOrder(jid, g, py) ==
    LET b  == 5 * (jid - 1)
        p  == ChoiceIndex(Draw(py, b), NumProducts)
        wd == BDateRange(JobEndDay)
    IN  [job_order_id |-> <<"JOB", jid>>,
         product_id   |-> p,
         priority     |-> Priorities[WeightedChoice(Draw(py, b + 1), PriorityWeights[p])],
         order_date   |-> wd[ChoiceIndexWide(Draw(py, b + 2), Draw(py, b + 3), Len(wd))],
         quantity     |-> Quantities[WeightedChoice(Draw(g, jid - 1),
                                                    <<10, 25, 50, 75, 90, 100>>)]]

JobOrders(n, g, py) ==
    IF n <= 0 THEN <<>> ELSE [jid \in 1..n |-> JobOrder(jid, g, py)]

BuildFactJobOrders ==
    /\ simulator = "jobshop"
    /\ stage = "dimensions"
    /\ fact_job_orders' = JobOrders(n_orders, rng, pyRandom)
    /\ rng' = Advance(rng, Max2(0, n_orders))
    /\ pyRandom' = Advance(pyRandom, 5 * Max2(0, n_orders))
    /\ stage' = "job_orders"
    /\ UNCHANGED <<sims, simulator, scadaState, fact_production,
                   n_orders, dim_operators, fact_quality,
                 dimVars, downVars, callVars>>

\* The order dates followed when the draws of the order loop are left open:
\* the first and the last working day of the horizon.
OpenOrderDates ==
    {BDateRange(JobEndDay)[1], BDateRange(JobEndDay)[Len(BDateRange(JobEndDay))]}

\* _build_fact_job_orders with the outcomes of random.choice(products),
\* random.choice(working_days) and self.rng.choice(quantities) left open: any
\* product, any of the order dates followed and any quantity, independently
\* for each job.  The generators advance as in BuildFactJobOrders.
BuildFactJobOrdersAnyChoice ==
    /\ simulator = "jobshop"
    /\ stage = "dimensions"
    /\ n_orders > 0
    /\ \E products \in [1..n_orders -> 1..NumProducts],
          dates \in [1..n_orders -> OpenOrderDates],
          quantities \in [1..n_orders -> 1..Len(Quantities)] :
          fact_job_orders' =
              [jid \in 1..n_orders |->
                  [JobOrder(jid, rng, pyRandom) EXCEPT
                      !.product_id = products[jid],
                      !.priority = Priorities[WeightedChoice(
                                       Draw(pyRandom, 5 * (jid - 1) + 1),
                                       PriorityWeights[products[jid]])],
                      !.order_date = dates[jid],
                      !.quantity = Quantities[quantities[jid]]]]
    /\ rng' = Advance(rng, n_orders)
    /\ pyRandom' = Advance(pyRandom, 5 * n_orders)
    /\ stage' = "job_orders"
    /\ UNCHANGED <<sims, simulator, scadaState, fact_production,
                   n_orders, dim_operators, fact_quality,
                   dimVars, downVars, callVars>>

\* strftime("%Y-%m-%d %H:%M") of a time: the minutes since START_DATE 00:00,
\* the seconds dropped.
Minutes(t) == t \div 10

\* One step of the routing loop of _build_fact_production.  A step takes three
\* draws of the module generator (machine, operator twice) and five of
\* self.rng (cycle, queue, setup, yield, gap to the next step).
ProductionStep(job, eff, step, current_time, prod_id, g, py) ==
    LET mtype      == Routing[job.product_id][step]
        machine_id == FirstMachine(mtype) - 1
                        + ChoiceIndex(Draw(py, 0), MachineCount[mtype])
        operator_id == ChoiceIndexWide(Draw(py, 1), Draw(py, 2), Len(eff))
        e          == eff[operator_id]
        base_cycle == MachineAvgCycle[mtype]
        \* base_cycle * (1 / eff) + normal(0, base_cycle * variability)
        cycle_num  == 100000 * base_cycle
                        + base_cycle * MachineVariability[mtype]
                            * NormalTenths(Draw(g, 0)) * e
        actual_cycle == Max2(5 * base_cycle,
                             RoundDiv(cycle_num, 100 * e))
        queue_time == IF MachineTypes[mtype] # "Surface Grinder"
                      THEN Exponential30(Draw(g, 1))
                      ELSE RoundDiv(5 * Exponential30(Draw(g, 1)), 2)
        setup_time == Max2(30, 100 + 3 * NormalTenths(Draw(g, 2)))
        start_time == current_time + queue_time
        end_time   == start_time + setup_time + actual_cycle * job.quantity
        complexity == IF step <= 2 THEN 100 ELSE 98
        yield      == (960 + 3 * NormalTenths(Draw(g, 3))) * e * complexity
        fpy        == RoundDiv(Min2(10000000, Max2(8500000, yield)), 10000)
    IN  [row |-> [production_id    |-> <<"PRD-RUN", prod_id>>,
                  job_order_id     |-> job.job_order_id,
                  product_id       |-> job.product_id,
                  machine_id       |-> machine_id,
                  operator_id      |-> operator_id,
                  step_number      |-> step,
                  step_machine_type |-> MachineTypes[mtype],
                  date             |-> start_time \div DayTenths,
                  start_time       |-> Minutes(start_time),
                  end_time         |-> Minutes(end_time),
                  quantity_in      |-> job.quantity,
                  quantity_good    |-> Max2(1, (job.quantity * fpy) \div 1000),
                  first_pass_yield |-> fpy],
         next |-> end_time + 50 + (250 * Draw(g, 4)) \div 8]

RECURSIVE RoutingLoop(_, _, _, _, _, _, _, _)
RoutingLoop(job, eff, step, current_time, prod_id, g, py, acc) ==
    IF step > Len(Routing[job.product_id])
    THEN [rows |-> acc, g |-> g, py |-> py]
    ELSE LET r == ProductionStep(job, eff, step, current_time, prod_id, g, py)
         IN  RoutingLoop(job, eff, step + 1, r.next, prod_id + 1,
                         Advance(g, 5), Advance(py, 3), Append(acc, r.row))

\* Mutant: the time cursor of a job starts anywhere in the first 7 hours of
\* the order date.
JobStartFromMidnight(job, g) == job.order_date * DayTenths + 525 * Draw(g, 0)

\* current_time = order_date + timedelta(hours=self.rng.uniform(1, 8)).
JobStart(job, g) == job.order_date * DayTenths + 600 + 525 * Draw(g, 0)

\* The loop of _build_fact_production over the job orders.
RECURSIVE JobsLoop(_, _, _, _, _, _)
JobsLoop(jobs, eff, i, g, py, acc) ==
    IF i > Len(jobs) THEN [rows |-> acc, g |-> g, py |-> py]
    ELSE LET start == JobStart(jobs[i], g)
             r     == RoutingLoop(jobs[i], eff, 1, start, Len(acc) + 1,
                                  Advance(g, 1), py, acc)
         IN  JobsLoop(jobs, eff, i + 1, r.g, r.py, r.rows)

JobShopBuildFactProduction ==
    /\ simulator = "jobshop"
    /\ stage = "job_orders"
    /\ LET r == JobsLoop(fact_job_orders, OperatorEfficiency(dim_operators), 1, rng,
                         pyRandom, <<>>)
       IN  /\ fact_production' = r.rows
           /\ rng' = r.g
           /\ pyRandom' = r.py
    /\ stage' = "production"
    /\ UNCHANGED <<sims, simulator, scadaState, jobOnly,
                 dimVars, downVars, callVars>>

\* The events of one production row: one per defective unit.  An event takes
\* five draws of the module generator (severity, disposition, defect type,
\* root cause, corrective action) and one of self.rng unless it is used as is.
Severities == <<"Minor", "Major", "Critical">>
Dispositions(severity) ==
    CASE severity = "Minor"    -> [names |-> <<"Rework", "Use As-Is", "Scrap">>,
                                   cum   |-> <<80, 95, 100>>]
      [] severity = "Major"    -> [names |-> <<"Rework", "Scrap", "Use As-Is">>,
                                   cum   |-> <<50, 90, 100>>]
      [] severity = "Critical" -> [names |-> <<"Scrap", "Rework", "Use As-Is">>,
                                   cum   |-> <<70, 95, 100>>]

RECURSIVE DefectsLoop(_, _, _, _, _)
DefectsLoop(prod, left, g, py, acc) ==
    IF left <= 0 THEN [rows |-> acc, g |-> g, py |-> py]
    ELSE LET severity    == Severities[WeightedChoice(Draw(py, 0), <<55, 90, 100>>)]
             options     == Dispositions(severity)
             disposition == options.names[WeightedChoice(Draw(py, 1), options.cum)]
             event == [quality_event_id |-> <<"QE", Len(acc) + 1>>,
                       production_id    |-> prod.production_id,
                       job_order_id     |-> prod.job_order_id,
                       product_id       |-> prod.product_id,
                       machine_id       |-> prod.machine_id,
                       operator_id      |-> prod.operator_id,
                       date             |-> prod.date,
                       severity         |-> severity,
                       disposition      |-> disposition]
         IN  DefectsLoop(prod, left - 1,
                         IF disposition = "Use As-Is" THEN g ELSE Advance(g, 1),
                         Advance(py, 5), Append(acc, event))

\* Mutant: one event per defective production row instead of one per unit.
QualityLoopPerRow(fp, i, g, py, acc) ==
    LET sel == SelectSeq(fp, LAMBDA prod : prod.quantity_in > prod.quantity_good)
    IN  [rows |-> [j \in 1..Len(sel) |->
                      [quality_event_id |-> <<"QE", j>>,
                       production_id    |-> sel[j].production_id,
                       job_order_id     |-> sel[j].job_order_id,
                       product_id       |-> sel[j].product_id,
                       machine_id       |-> sel[j].machine_id,
                       operator_id      |-> sel[j].operator_id,
                       date             |-> sel[j].date,
                       severity         |-> "Minor",
                       disposition      |-> "Use As-Is"]],
         g |-> g, py |-> py]

\* The loop of _build_fact_quality over the production rows.
RECURSIVE QualityLoop(_, _, _, _, _)
QualityLoop(fp, i, g, py, acc) ==
    IF i > Len(fp) THEN [rows |-> acc, g |-> g, py |-> py]
    ELSE LET r == DefectsLoop(fp[i], fp[i].quantity_in - fp[i].quantity_good,
                              g, py, acc)
         IN  QualityLoop(fp, i + 1, r.g, r.py, r.rows)

BuildFactQuality ==
    /\ simulator = "jobshop"
    /\ stage = "production"
    /\ LET r == QualityLoop(fact_production, 1, rng, pyRandom, <<>>)
       IN  /\ fact_quality' = r.rows
           /\ rng' = r.g
           /\ pyRandom' = r.py
    /\ stage' = "quality"
    /\ UNCHANGED <<sims, simulator, scadaState, fact_production, n_orders,
                   dim_operators, fact_job_orders,
                 dimVars, downVars, callVars>>

\* DOWNTIME_CATEGORIES, with the category names of DowntimeCategories in the
\* same order: avg_duration_hr and frequency_per_month, in tenths.
JobDowntimeAvgHr     == <<20, 35, 5, 40, 15, 10>>
JobDowntimeFrequency == <<20, 8, 60, 3, 5, 10>>

\* START_DATE and END_DATE, as year and month.
START_DATE == [year |-> 2024, month |-> 1]
END_DATE   == [year |-> 2025, month |-> 12]
\* total_months of _build_fact_downtime.
JobTotalMonths ==
    (END_DATE.year - START_DATE.year) * 12 + (END_DATE.month - START_DATE.month)

\* freq * total_months for machine m and category c, in hundredths; the
\* frequency of unplanned breakdowns is scaled by max(0.5, 2.0 - condition).
JobEventsMean(machines, m, c) ==
    IF DowntimeCategories[c] = "Unplanned Breakdown"
    THEN (JobDowntimeFrequency[c] * Max2(50, 200 - machines[m].condition_score)
              * JobTotalMonths) \div 10
    ELSE JobDowntimeFrequency[c] * 10 * JobTotalMonths

\* for _ in range(n_events): the candidates of machine m and category c that
\* are left to draw.  A candidate takes one draw of self.rng for its date;
\* one that becomes a row takes one more for the duration, one for the cost
\* of an unplanned breakdown, and one of the module generator for the shift.
RECURSIVE JobCandidatesLoop(_, _, _, _)
JobCandidatesLoop(m, c, todo, acc) ==
    IF todo = 0 THEN acc
    ELSE LET g         == acc.g
             day       == (Draw(g, 0) * JobEndDay) \div 8
             unplanned == DowntimeCategories[c] = "Unplanned Breakdown"
             avg       == JobDowntimeAvgHr[c]
             duration  == Max2(25, 10 * avg
                                   + RoundDiv(3 * avg * NormalTenths(Draw(g, 1)), 10))
             row       == [downtime_id |-> <<"DT", Len(acc.rows) + 1>>,
                           machine_id |-> m, date |-> day,
                           downtime_category |-> DowntimeCategories[c],
                           duration_hours |-> duration,
                           shift_affected |-> ChoiceIndex(Draw(acc.py, 0), 3),
                           was_scheduled |-> DowntimeCategories[c]
                               \in {"Planned Maintenance", "Calibration"}]
         IN  IF Weekday(day) >= 5
             THEN JobCandidatesLoop(m, c, todo - 1,
                      [acc EXCEPT !.g = Advance(g, 1),
                                  !.cands = Append(@, [date |-> day, draw |-> <<>>,
                                                       kept |-> FALSE])])
             ELSE JobCandidatesLoop(m, c, todo - 1,
                      [acc EXCEPT !.g = Advance(g, IF unplanned THEN 3 ELSE 2),
                                  !.py = Advance(@, 1),
                                  !.rows = Append(@, row),
                                  !.cands = Append(@, [date |-> day, draw |-> <<>>,
                                                       kept |-> TRUE])])

\* The machines the downtime loop is followed for: MaxMachines of them,
\* spread evenly from the first machine of dim_machines to the last.
LoopMachines ==
    IF MaxMachines = 1 THEN <<1>>
    ELSE [i \in 1..MaxMachines |->
            1 + ((i - 1) * (NumMachines - 1)) \div (MaxMachines - 1)]

\* The end of one pass of "for category, spec in DOWNTIME_CATEGORIES.items()":
\* r is the state after the candidates of machine m and category c; on to
\* the next (machine, category).
JobCategoryDone(m, c, mean, n_events, r) ==
    [r EXCEPT !.log = Append(@,
                  [machine_id |-> m,
                   category |-> DowntimeCategories[c],
                   mean |-> mean,
                   n_events |-> n_events, candidates |-> r.cands]),
              !.k = IF c = NumCategories THEN @ + 1 ELSE @,
              !.c = IF c = NumCategories THEN 1 ELSE c + 1]

\* for _ in range(n_events), for machine m and category acc.c.  Of the
\* n_events candidates of a pair the first MaxEvents are followed.
JobCategoryEvents(m, acc, mean, n_events) ==
    JobCategoryDone(m, acc.c, mean, n_events,
        JobCandidatesLoop(m, acc.c, Min2(n_events, MaxEvents),
            [acc EXCEPT !.g = Advance(@, 1), !.cands = <<>>]))

\* n_events = int(self.rng.poisson(freq * total_months)) and the pass it
\* starts, for machine m.
JobCategoryStep(machines, m, acc) ==
    JobCategoryEvents(m, acc, JobEventsMean(machines, m, acc.c),
        Poisson(Draw(acc.g, 0), JobEventsMean(machines, m, acc.c)))

\* for _, machine in self.dim_machines.iterrows(): for category, spec in ...
\* acc.k is the position in LoopMachines.
RECURSIVE JobDowntimeLoop(_, _)
JobDowntimeLoop(machines, acc) ==
    IF acc.k > Len(LoopMachines) THEN acc
    ELSE JobDowntimeLoop(machines,
                         JobCategoryStep(machines, LoopMachines[acc.k], acc))

\* The last builder of run(): _build_fact_downtime; run() then returns the
\* tables.
JobShopBuildFactDowntime ==
    /\ simulator = "jobshop"
    /\ stage = "quality"
    /\ LET r == JobDowntimeLoop(dim_machines,
                    [k |-> 1, c |-> 1, rows |-> <<>>, cands |-> <<>>,
                     log |-> <<>>, g |-> rng, py |-> pyRandom])
       IN  /\ fact_downtime' = r.rows
           /\ downtime_candidates' = r.log
           /\ rng' = r.g
           /\ pyRandom' = r.py
    /\ stage' = "downtime"
    /\ UNCHANGED <<sims, simulator, scadaState, fact_production, jobOnly,
                   dimVars, callVars>>

\* The calendar months from month a to month b, both counted.
MonthsCovered(a, b) ==
    Cardinality({ym \in (a.year..b.year) \X (1..12) :
                    /\ ym[1] * 12 + ym[2] >= a.year * 12 + a.month
                    /\ ym[1] * 12 + ym[2] <= b.year * 12 + b.month})
CategoryIndex(name) ==
    CHOOSE c \in 1..NumCategories : DowntimeCategories[c] = name

\* C23: the Poisson mean of an (asset, category) pair is the category's
\* monthly frequency, times the bottleneck factor 1.6 (SCADA, STN-04) or the
\* condition factor max(0.5, 2.0 - condition) (job shop) for unplanned
\* breakdowns, times the calendar months of the horizon from its first month
\* to its last, both counted: 6 for the SCADA horizon, 24 for the job shop's.
\* Means are in hundredths.
C23_MeanCoversEveryMonth ==
    stage = "downtime" =>
        \A p \in 1..Len(downtime_candidates) :
            LET e == downtime_candidates[p]
                c == CategoryIndex(e.category)
                unplanned == e.category = "Unplanned Breakdown"
            IN  IF simulator = "scada"
                THEN /\ MonthsCovered(SIM_START, SIM_END) = 6
                     /\ e.mean = DowntimeMonthlyFreq[c]
                                  * (IF unplanned /\ e.station_id = 4 THEN 16 ELSE 10)
                                  * MonthsCovered(SIM_START, SIM_END)
                ELSE /\ MonthsCovered(START_DATE, END_DATE) = 24
                     /\ e.mean = (JobDowntimeFrequency[c]
                                   * (IF unplanned
                                      THEN Max2(50, 200 - dim_machines[e.machine_id]
                                                              .condition_score)
                                      ELSE 100)
                                   * MonthsCovered(START_DATE, END_DATE)) \div 10

\* C26: the maintenance schedule and the downtime table agree: every
\* fact_downtime row of category Planned Maintenance of a station has a date
\* of the station's maintenance schedule, and every scheduled maintenance date
\* of a station has a Planned Maintenance row of it.  (The second half is read
\* for the stations whose Planned Maintenance candidates were all followed.)
C26_PlannedMaintenanceOnSchedule ==
    (simulator = "scada" /\ stage \in {"downtime", "alarms"}) =>
        \A p \in 1..Len(downtime_candidates) :
            LET e    == downtime_candidates[p]
                rows == DowntimeRowsOf(e.station_id, e.category)
            IN  e.category = "Planned Maintenance" =>
                    /\ \A n \in rows :
                          fact_downtime[n].date \in DateSet(e.station_id)
                    /\ e.n_events <= MaxEvents =>
                          \A d \in DateSet(e.station_id) :
                              \E n \in rows : fact_downtime[n].date = d

\* C14: JobShopSimulator.run(n_orders) with n_orders <= 0 ends in a
\* configuration error before any table is built: no builder runs, and run()
\* never returns a table set whose fact tables are empty or partial.
C14_NonPositiveOrdersFailFast ==
    (simulator = "jobshop" /\ n_orders <= 0) =>
        /\ stage = "new"
        /\ dim_machines = <<>> /\ dim_operators = <<>>
        /\ ~(stage = "downtime" /\ fact_job_orders = <<>> /\ fact_production = <<>>)

(***************************************************************************)
(* Properties of the orders, production rows and quality events.           *)
(***************************************************************************)
\* C5: every order falls on a working day inside the horizon: each entry of
\* the SCADA order list has a Monday-to-Friday date in [SIM_START, SIM_END],
\* and each fact_job_orders row a Monday-to-Friday order_date in
\* [START_DATE, END_DATE], whatever n_orders and the draws are.
C5_OrdersOnWorkingDays ==
    /\ \A i \in 1..Len(orders) :
          /\ Weekday(orders[i].date) < 5
          /\ 0 <= orders[i].date /\ orders[i].date <= SimEndDay
    /\ \A i \in 1..Len(fact_job_orders) :
          /\ Weekday(fact_job_orders[i].order_date) < 5
          /\ 0 <= fact_job_orders[i].order_date
          /\ fact_job_orders[i].order_date <= JobEndDay

\* A job-shop run of the largest n_orders whose orders fall on different
\* days, one of them in the second year of the horizon.
C5_Witness ==
    /\ simulator = "jobshop"
    /\ n_orders = MaxJobOrders
    /\ Len(fact_job_orders) = n_orders
    /\ \E i, j \in 1..Len(fact_job_orders) :
          /\ fact_job_orders[i].order_date # fact_job_orders[j].order_date
          /\ fact_job_orders[i].order_date > 365

\* The production rows a quality event points at.
Parents(event) ==
    {n \in 1..Len(fact_production) :
        fact_production[n].production_id = event.production_id}

\* C6: every quality event of either simulator has exactly one production
\* row with its production_id; that row failed (SCADA: quality_result is
\* Fail; job shop: quantity_good < quantity_in) and the event repeats the
\* row's station or machine, operator, order, product and date (and shift in
\* SCADA).
C6_EventHasOneFailingParent ==
    /\ \A j \in 1..Len(fact_quality_events) :
          LET e == fact_quality_events[j]
          IN  /\ Cardinality(Parents(e)) = 1
              /\ \A n \in Parents(e) :
                    LET row == fact_production[n]
                    IN  /\ row.quality_result = "Fail"
                        /\ e.station_id = row.station_id
                        /\ e.operator_id = row.operator_id
                        /\ e.order_id = row.order_id
                        /\ e.product_id = row.product_id
                        /\ e.date = row.date
                        /\ e.shift = row.shift
    /\ \A j \in 1..Len(fact_quality) :
          LET e == fact_quality[j]
          IN  /\ Cardinality(Parents(e)) = 1
              /\ \A n \in Parents(e) :
                    LET row == fact_production[n]
                    IN  /\ row.quantity_good < row.quantity_in
                        /\ e.machine_id = row.machine_id
                        /\ e.operator_id = row.operator_id
                        /\ e.job_order_id = row.job_order_id
                        /\ e.product_id = row.product_id
                        /\ e.date = row.date

\* A SCADA run whose production table has both passed and failed rows and
\* whose quality events have been built from it.
C6_Witness ==
    /\ simulator = "scada"
    /\ Len(fact_quality_events) >= 2
    /\ \E n \in 1..Len(fact_production) : fact_production[n].quality_result = "Pass"
    /\ \E n \in 1..Len(fact_production) : fact_production[n].quality_result = "Fail"

\* The quality events that point at production row n (job shop).
EventsOf(n) ==
    {j \in 1..Len(fact_quality) :
        fact_quality[j].production_id = fact_production[n].production_id}

\* C9: in the job shop every production row has 1 <= quantity_good <=
\* quantity_in with quantity_in one of 1, 2, 5, 10, 20, 50, and once
\* fact_quality is built it holds exactly quantity_in - quantity_good events
\* with that row's production_id (none when the two are equal).
C9_OneEventPerDefectiveUnit ==
    simulator = "jobshop" =>
        \A n \in 1..Len(fact_production) :
            LET row == fact_production[n]
            IN  /\ row.quantity_in \in {Quantities[q] : q \in 1..Len(Quantities)}
                /\ 1 <= row.quantity_good
                /\ row.quantity_good <= row.quantity_in
                /\ stage = "quality" =>
                      Cardinality(EventsOf(n)) = row.quantity_in - row.quantity_good

\* A finished job-shop run with a row that lost several units, a row that
\* lost none although more than one unit went in, and a row of one unit.
C9_Witness ==
    /\ simulator = "jobshop"
    /\ stage = "quality"
    /\ \E n \in 1..Len(fact_production) :
          fact_production[n].quantity_in - fact_production[n].quantity_good >= 2
    /\ \E n \in 1..Len(fact_production) :
          /\ fact_production[n].quantity_in > 1
          /\ fact_production[n].quantity_good = fact_production[n].quantity_in
    /\ \E n \in 1..Len(fact_production) :
          /\ fact_production[n].quantity_in = 1
          /\ fact_production[n].first_pass_yield < 1000

(***************************************************************************)
(* Properties of the alarms and of the derived SCADA tables.               *)
(***************************************************************************)
\* The sensor a reading or alarm row belongs to, by its sensor_id.
OwnSensor(row) == SENSOR_MAP[row.sensor_id[2]]
BelowLow(row)  == OwnSensor(row).alarm_lo # <<>> /\ row.value < OwnSensor(row).alarm_lo[1]
AboveHigh(row) == OwnSensor(row).alarm_hi # <<>> /\ row.value > OwnSensor(row).alarm_hi[1]

\* C7: the value of every alarm row lies outside the [alarm_lo, alarm_hi] of
\* the row's own sensor; alarm_type is Low exactly when value < alarm_lo and
\* High exactly when value > alarm_hi; threshold is the bound breached; a
\* sensor whose low (high) bound is None never has a Low (High) alarm.
C7_AlarmBreachesOwnBound ==
    \A j \in 1..Len(fact_alarms) :
        LET a == fact_alarms[j]
        IN  /\ OwnSensor(a).name = a.sensor_name
            /\ OwnSensor(a).station = a.station_id
            /\ BelowLow(a) \/ AboveHigh(a)
            /\ a.alarm_type \in {"Low", "High"}
            /\ a.alarm_type = "Low" <=> BelowLow(a)
            /\ a.alarm_type = "High" <=> AboveHigh(a)
            /\ BelowLow(a) => a.threshold = OwnSensor(a).alarm_lo[1]
            /\ AboveHigh(a) => a.threshold = OwnSensor(a).alarm_hi[1]
            /\ OwnSensor(a).alarm_lo = <<>> => a.alarm_type # "Low"
            /\ OwnSensor(a).alarm_hi = <<>> => a.alarm_type # "High"

\* A finished run with a Low alarm, a High alarm, and alarms of sensors that
\* have only one of the two bounds.
C7_Witness ==
    /\ stage = "alarms"
    /\ \E j \in 1..Len(fact_alarms) :
          fact_alarms[j].alarm_type = "Low" /\ OwnSensor(fact_alarms[j]).alarm_hi = <<>>
    /\ \E j \in 1..Len(fact_alarms) :
          fact_alarms[j].alarm_type = "High" /\ OwnSensor(fact_alarms[j]).alarm_lo = <<>>
    /\ \E j \in 1..Len(fact_alarms) :
          fact_alarms[j].alarm_type = "Low" /\ OwnSensor(fact_alarms[j]).alarm_hi # <<>>

\* The positions of the failed production rows and of the breaching readings.
FailedRows    == {n \in 1..Len(fact_production) :
                     fact_production[n].quality_result = "Fail"}
BreachingRows == {n \in 1..Len(fact_sensor_readings) :
                     BelowLow(fact_sensor_readings[n])
                        \/ AboveHigh(fact_sensor_readings[n])}
\* The j-th smallest member of a set of positions.
Nth(S, j) == CHOOSE n \in S : Cardinality({m \in S : m < n}) = j - 1

\* C8: in the SCADA simulator fact_quality_events holds exactly one event per
\* fact_production row with quality_result = Fail and none for a Pass row,
\* and fact_alarms exactly one alarm per fact_sensor_readings row that
\* breaches its sensor's bound and none for any other row, both in the row
\* order of the parent table.
C8_DerivedFromUpstream ==
    /\ (simulator = "scada" /\ stage \in {"quality", "downtime", "alarms"}) =>
          /\ Len(fact_quality_events) = Cardinality(FailedRows)
          /\ \A j \in 1..Len(fact_quality_events) :
                fact_quality_events[j].production_id
                    = fact_production[Nth(FailedRows, j)].production_id
    /\ (simulator = "scada" /\ stage = "alarms") =>
          /\ Len(fact_alarms) = Cardinality(BreachingRows)
          /\ \A j \in 1..Len(fact_alarms) :
                LET a   == fact_alarms[j]
                    row == fact_sensor_readings[Nth(BreachingRows, j)]
                IN  /\ a.timestamp = row.timestamp
                    /\ a.date = row.date
                    /\ a.station_id = row.station_id
                    /\ a.sensor_id = row.sensor_id
                    /\ a.sensor_name = row.sensor_name
                    /\ a.value = row.value
                    /\ a.shift = row.shift

\* A finished SCADA run with passed and failed production rows, breaching and
\* quiet readings, and a sensor that breaches twice on one day.
C8_Witness ==
    /\ simulator = "scada"
    /\ stage = "alarms"
    /\ FailedRows # {}
    /\ FailedRows # 1..Len(fact_production)
    /\ BreachingRows # 1..Len(fact_sensor_readings)
    /\ \E m, n \in BreachingRows :
          /\ m < n
          /\ fact_sensor_readings[m].sensor_id = fact_sensor_readings[n].sensor_id
          /\ fact_sensor_readings[m].date = fact_sensor_readings[n].date

\* The positions of the readings that carry a sensor_id and a timestamp.
ReadingsAt(sensor_id, timestamp) ==
    {n \in 1..Len(fact_sensor_readings) :
        /\ fact_sensor_readings[n].sensor_id = sensor_id
        /\ fact_sensor_readings[n].timestamp = timestamp}

\* C24: fact_sensor_readings holds one observation per (sensor, time-step):
\* no two rows share sensor_id and timestamp, so the sensor_id and timestamp
\* of an alarm identify exactly one reading.
C24_OneReadingPerSensorAndInstant ==
    /\ \A n \in 1..Len(fact_sensor_readings) :
          ReadingsAt(fact_sensor_readings[n].sensor_id,
                     fact_sensor_readings[n].timestamp) = {n}
    /\ \A j \in 1..Len(fact_alarms) :
          Cardinality(ReadingsAt(fact_alarms[j].sensor_id,
                                 fact_alarms[j].timestamp)) = 1

\* C25: for every row of fact_sensor_readings, night-shift rows included, the
\* date field is the calendar date of the timestamp, and the timestamp lies on
\* a working day within [SIM_START, SIM_END].  (The days since maintenance of
\* a reading are those of its timestamp, the rush flag that of its date
\* field: they are of one date when the two dates agree.)
C25_DateOfTimestamp ==
    \A n \in 1..Len(fact_sensor_readings) :
        LET row == fact_sensor_readings[n]
        IN  /\ row.date = row.timestamp.day
            /\ Weekday(row.timestamp.day) < 5
            /\ 0 <= row.timestamp.day /\ row.timestamp.day <= SimEndDay

(***************************************************************************)
(* run() called again on the same ScadaSimulator instance.                 *)
(***************************************************************************)
\* run() has returned and is called once more: the instance keeps self.rng,
\* self.maintenance_dates, self.orders and self.tables as the call left them.
RunAgain ==
    /\ simulator = "scada"
    /\ stage = "alarms"
    /\ Len(calls) + 1 < MaxCalls
    /\ calls' = Append(calls, Len(orders))
    /\ stage' = "new"
    /\ UNCHANGED <<pyRandom, sims, simulator, rng, schedVars, scadaTables,
                   jobOnly, dimVars, downVars, probabilities, scenario_reading,
                   sampling>>

\* The entries of self.orders that were there before the latest call.
OrdersBeforeCall == IF calls = <<>> THEN 0 ELSE Last(calls)

\* C27: after any number of run() calls on one ScadaSimulator instance, no
\* two entries of the order list share an order_id, the list holds only the
\* orders the latest call generated, and fact_production has exactly one row
\* per (order, station) of that call.
C27_OrdersOfLatestCallOnly ==
    (simulator = "scada" /\ stage = "alarms") =>
        /\ \A i, j \in 1..Len(orders) :
              i # j => orders[i].order_id # orders[j].order_id
        /\ OrdersBeforeCall = 0
        /\ Len(fact_production) = NumStations * (Len(orders) - OrdersBeforeCall)

(***************************************************************************)
(* Properties of the identifiers and of the references between tables.     *)
(***************************************************************************)
\* The identifiers of a table, in row order.
Ids(table, id(_)) == [n \in 1..Len(table) |-> id(table[n])]

\* The k-th identifier is the prefix with number k.
Numbered(ids, prefix) == \A n \in 1..Len(ids) : ids[n] = <<prefix, n>>

\* C15: in every generated table with a numbered identifier (ORD, PRD, QE, DT,
\* ALM, SNS in SCADA; MCH, JOB, PRD-RUN, QE, DT in the job shop) the k-th row
\* carries number k: the numbers start at 1 and rise by 1 per emitted row,
\* without gap or duplicate, also where candidate rows are skipped.
C15_IdentifiersDense ==
    /\ Numbered(Ids(orders, LAMBDA r : r.order_id), "ORD")
    /\ Numbered(Ids(fact_production, LAMBDA r : r.production_id),
                IF simulator = "jobshop" THEN "PRD-RUN" ELSE "PRD")
    /\ Numbered(Ids(fact_quality_events, LAMBDA r : r.quality_event_id), "QE")
    /\ Numbered(Ids(fact_downtime, LAMBDA r : r.downtime_id), "DT")
    /\ Numbered(Ids(fact_alarms, LAMBDA r : r.alarm_id), "ALM")
    /\ Numbered(Ids(dim_sensors, LAMBDA r : r.sensor_id), "SNS")
    /\ \A m \in 1..Len(dim_machines) : dim_machines[m].machine_id = m
    /\ Numbered(Ids(fact_job_orders, LAMBDA r : r.job_order_id), "JOB")
    /\ Numbered(Ids(fact_quality, LAMBDA r : r.quality_event_id), "QE")

\* A finished SCADA run in which some readings breach and others do not, some
\* production rows fail and others pass, and a downtime candidate was
\* skipped after a row had been emitted and before another was.
C15_Witness ==
    /\ simulator = "scada"
    /\ stage = "alarms"
    /\ Len(fact_alarms) >= 2
    /\ Len(fact_alarms) < Len(fact_sensor_readings)
    /\ AlarmType(fact_sensor_readings[1]) = ""
    /\ Len(fact_quality_events) >= 2
    /\ Len(fact_quality_events) < Len(fact_production)
    /\ Len(fact_downtime) >= 2
    /\ \E p \in 2..Len(downtime_candidates) :
          /\ \E i \in 1..Len(downtime_candidates[p].candidates) :
                ~downtime_candidates[p].candidates[i].kept
          /\ \E q \in 1..(p - 1) :
                \E i \in 1..Len(downtime_candidates[q].candidates) :
                    downtime_candidates[q].candidates[i].kept
          /\ \E q \in (p + 1)..Len(downtime_candidates) :
                \E i \in 1..Len(downtime_candidates[q].candidates) :
                    downtime_candidates[q].candidates[i].kept

\* The values of a column of a table.
Column(table, col(_)) == {col(table[n]) : n \in 1..Len(table)}

\* C16: every foreign key points to an existing parent row: each
\* production_id of a quality table is in fact_production; each station_id
\* or machine_id of downtime, production, readings and alarms is in
\* dim_stations or dim_machines; each operator_id of production is in
\* dim_operators; each sensor_id of readings and alarms is in dim_sensors
\* with the same station_id and sensor_name.
C16_ForeignKeys ==
    LET productions == Column(fact_production, LAMBDA r : r.production_id)
        operators   == Column(dim_operators, LAMBDA r : r.operator_id)
        stations    == Column(dim_stations, LAMBDA r : r.station_id)
        machines    == Column(dim_machines, LAMBDA r : r.machine_id)
        sensors     == Column(dim_sensors,
                              LAMBDA r : <<r.sensor_id, r.station_id, r.sensor_name>>)
    IN  /\ Column(fact_quality_events, LAMBDA r : r.production_id) \subseteq productions
        /\ Column(fact_quality, LAMBDA r : r.production_id) \subseteq productions
        /\ Column(fact_production, LAMBDA r : r.operator_id) \subseteq operators
        /\ simulator = "scada" =>
              /\ Column(fact_production, LAMBDA r : r.station_id) \subseteq stations
              /\ Column(fact_downtime, LAMBDA r : r.station_id) \subseteq stations
              /\ Column(fact_sensor_readings, LAMBDA r : r.station_id) \subseteq stations
              /\ Column(fact_alarms, LAMBDA r : r.station_id) \subseteq stations
              /\ Column(fact_sensor_readings,
                        LAMBDA r : <<r.sensor_id, r.station_id, r.sensor_name>>)
                    \subseteq sensors
              /\ Column(fact_alarms,
                        LAMBDA r : <<r.sensor_id, r.station_id, r.sensor_name>>)
                    \subseteq sensors
        /\ simulator = "jobshop" =>
              /\ Column(fact_production, LAMBDA r : r.machine_id) \subseteq machines
              /\ Column(fact_downtime, LAMBDA r : r.machine_id) \subseteq machines

\* A finished SCADA run with rows in every table that holds a reference.
C16_Witness ==
    /\ simulator = "scada"
    /\ stage = "alarms"
    /\ fact_quality_events # <<>>
    /\ fact_downtime # <<>>
    /\ fact_alarms # <<>>
    /\ Cardinality(Column(fact_alarms, LAMBDA r : r.sensor_id)) >= 2
    /\ Cardinality(Column(fact_production, LAMBDA r : r.operator_id)) >= 2

(***************************************************************************)
(* The order of the stages of run().                                       *)
(***************************************************************************)
\* The builders of ScadaSimulator.run and of JobShopSimulator.run in call
\* order, named by the stage each one ends in, after "new".
ScadaStages == <<"new", "dimensions", "scheduled", "ordered", "readings",
                 "production", "quality", "downtime", "alarms">>
JobStages   == <<"new", "dimensions", "job_orders", "production", "quality",
                 "downtime">>

\* What a step of a run may change: x is touched only by the step that
\* leaves stage `from`.
OnlyFrom(changed, from) == changed => stage = from

\* One step of run(): the next builder in call order, touching only its own
\* result and reading the finished results of earlier builders.
StageStep ==
    LET stages == IF simulator = "scada" THEN ScadaStages ELSE JobStages
    IN  /\ \E i \in 1..(Len(stages) - 1) : stage = stages[i] /\ stage' = stages[i + 1]
        /\ simulator' = simulator
        /\ OnlyFrom(<<dim_stations, dim_sensors, dim_machines, dim_operators>>'
                        # <<dim_stations, dim_sensors, dim_machines, dim_operators>>,
                    "new")
        /\ OnlyFrom(fact_downtime' # fact_downtime, "quality")
        /\ simulator = "scada" =>
              /\ OnlyFrom(maintenance_dates' # maintenance_dates, "dimensions")
              /\ OnlyFrom(orders' # orders, "scheduled")
              /\ OnlyFrom(fact_sensor_readings' # fact_sensor_readings, "ordered")
              /\ OnlyFrom(fact_production' # fact_production, "readings")
              /\ OnlyFrom(fact_quality_events' # fact_quality_events, "production")
              /\ OnlyFrom(fact_alarms' # fact_alarms, "downtime")
              /\ stage = "production" =>
                    Column(fact_quality_events', LAMBDA r : r.production_id)
                        = {fact_production[n].production_id : n \in FailedRows}
              /\ stage = "downtime" =>
                    Column(fact_alarms', LAMBDA r : r.timestamp)
                        = {fact_sensor_readings[n].timestamp : n \in BreachingRows}
        /\ simulator = "jobshop" =>
              /\ OnlyFrom(fact_job_orders' # fact_job_orders, "dimensions")
              /\ OnlyFrom(fact_production' # fact_production, "job_orders")
              /\ OnlyFrom(fact_quality' # fact_quality, "production")
              /\ stage = "production" =>
                    Column(fact_quality', LAMBDA r : r.production_id)
                        \subseteq Column(fact_production, LAMBDA r : r.production_id)

\* C17: within one run() the stages execute in dependency order and earlier
\* results are only read afterwards: the maintenance schedule and the order
\* list are complete before the first reading or production row, the quality
\* table is built after and from the finished production table, the alarm
\* table after and from the finished readings table, and no later stage
\* changes the schedule, the order list or an already built table.
C17_StagesInDependencyOrder == [][StageStep]_vars

\* A finished SCADA run, every stage of which produced something.
C17_Witness ==
    /\ simulator = "scada"
    /\ stage = "alarms"
    /\ \A k \in 1..NumStations : maintenance_dates[k] # <<>>
    /\ orders # <<>>
    /\ fact_sensor_readings # <<>>
    /\ FailedRows # {}
    /\ fact_quality_events # <<>>
    /\ fact_downtime # <<>>
    /\ fact_alarms # <<>>

(***************************************************************************)
(* Properties of the job-shop production rows.                             *)
(***************************************************************************)
JobProductionBuilt ==
    simulator = "jobshop" /\ stage \in {"production", "quality", "downtime"}

\* The production rows of job order j, in table order.
RowsOfJob(j) ==
    SelectSeq(fact_production,
              LAMBDA r : r.job_order_id = fact_job_orders[j].job_order_id)

\* C22: each job has exactly one production row per routing step of its
\* product, numbered 1..n in routing order, on a machine of the type the step
\* requires; each row starts no later than it ends, the first step starts at
\* least 1 hour after the order date, and step k+1 starts at least 5 minutes
\* after step k ends.
C22_OneRowPerRoutingStep ==
    JobProductionBuilt =>
        \A j \in 1..Len(fact_job_orders) :
            LET job     == fact_job_orders[j]
                rows    == RowsOfJob(j)
                routing == Routing[job.product_id]
            IN  /\ Len(rows) = Len(routing)
                /\ \A k \in 1..Len(rows) :
                      /\ rows[k].step_number = k
                      /\ rows[k].step_machine_type = MachineTypes[routing[k]]
                      /\ dim_machines[rows[k].machine_id].machine_type
                            = MachineTypes[routing[k]]
                      /\ rows[k].start_time <= rows[k].end_time
                /\ rows[1].start_time >= job.order_date * 24 * 60 + 60
                /\ \A k \in 1..(Len(rows) - 1) :
                      rows[k + 1].start_time >= rows[k].end_time + 5

\* A job of the five-step product built in a batch, with a queue before a
\* later step.
C22_Witness ==
    /\ JobProductionBuilt
    /\ \E j \in 1..Len(fact_job_orders) :
          LET rows == RowsOfJob(j)
          IN  /\ Len(rows) = 5
              /\ fact_job_orders[j].quantity > 1
              /\ \E k \in 1..4 :
                    rows[k + 1].start_time > rows[k].end_time + 30

\* C29: every date of the job-shop fact_production table, and so of
\* fact_quality, is a date of dim_date, that is a day of
\* [START_DATE, END_DATE], whatever the order date, the quantity, the routing
\* and the time draws are.
C29_ProductionDatesInCalendar ==
    simulator = "jobshop" =>
        /\ \A n \in 1..Len(fact_production) :
              /\ 0 <= fact_production[n].date
              /\ fact_production[n].date <= JobEndDay
        /\ \A n \in 1..Len(fact_quality) :
              /\ 0 <= fact_quality[n].date
              /\ fact_quality[n].date <= JobEndDay

\* Two production rows, by position, on one machine.
SameMachine(m, n) ==
    fact_production[m].machine_id = fact_production[n].machine_id

\* C30: no machine of the job shop works on two production steps at once:
\* the [start_time, end_time) intervals of any two fact_production rows with
\* the same machine_id do not overlap.
C30_OneStepPerMachineAtATime ==
    simulator = "jobshop" =>
        \A m, n \in 1..Len(fact_production) :
            (m < n /\ SameMachine(m, n)) =>
                \/ fact_production[m].end_time <= fact_production[n].start_time
                \/ fact_production[n].end_time <= fact_production[m].start_time

(***************************************************************************)
(* Specifications.                                                         *)
(***************************************************************************)
NoSims == [i \in Sims |-> NoSim]

\* Every table empty, as before run().
NoTables ==
    /\ orders = <<>>
    /\ fact_sensor_readings = <<>>
    /\ fact_production = <<>>
    /\ fact_quality_events = <<>>
    /\ fact_alarms = <<>>
    /\ sensor_value = <<>>
    /\ dim_operators = <<>>
    /\ fact_job_orders = <<>>
    /\ fact_quality = <<>>
    /\ dim_stations = <<>>
    /\ dim_sensors = <<>>
    /\ dim_machines = <<>>
    /\ fact_downtime = <<>>
    /\ downtime_candidates = <<>>
    /\ probabilities = <<>>
    /\ scenario_reading = <<>>
    /\ sampling = <<>>
    /\ calls = <<>>

\* A fresh ScadaSimulator(seed), for any seed: both generators seeded, the
\* schedule, the order list and the tables empty.
InitScada ==
    /\ n_orders = 0
    /\ \E seed \in Tapes : rng = NpGen(seed) /\ pyRandom = PyGen(seed)
    /\ sims = NoSims
    /\ simulator = "scada"
    /\ stage = "new"
    /\ maintenance_dates = NoDates
    /\ days_since = <<>>
    /\ NoTables

\* A process in which no simulator has been constructed yet.
InitDet ==
    /\ n_orders = 0
    /\ pyRandom = PyUnseeded
    /\ sims = NoSims
    /\ simulator = "none"
    /\ rng = <<>>
    /\ stage = "none"
    /\ maintenance_dates = NoDates
    /\ days_since = <<>>
    /\ NoTables

NextDet ==
    \/ \E i \in Sims, kind \in Kinds, seed \in Seeds : Construct(i, kind, seed)
    \/ \E i \in Sims : Run(i)
SpecDet == InitDet /\ [][NextDet]_vars

NextSched ==
    \/ BuildDimTables
    \/ ScheduleMaintenance
    \/ EvalDaysSince
SpecSched == InitScada /\ [][NextSched]_vars

\* A fresh JobShopSimulator(seed) about to run(n_orders), for any seed and any
\* n_orders up to the bound.
InitJobShop ==
    /\ \E seed \in Tapes : rng = NpGen(seed) /\ pyRandom = PyGen(seed)
    /\ n_orders \in -1..MaxJobOrders
    /\ sims = NoSims
    /\ simulator = "jobshop"
    /\ stage = "new"
    /\ maintenance_dates = NoDates
    /\ days_since = <<>>
    /\ NoTables

\* Calls of _generate_sensor_value on a simulator with a schedule.
InitSensor ==
    /\ \E seed \in Seeds : rng = NpGen(seed) /\ pyRandom = PyGen(seed)
    /\ n_orders = 0
    /\ sims = NoSims
    /\ simulator = "scada"
    /\ stage = "new"
    /\ maintenance_dates = NoDates
    /\ days_since = <<>>
    /\ NoTables
\* Evaluations of the two probabilities.
SpecProb == InitSensor /\ [][EvalProbabilities]_vars

\* Readings of a reconfigured signal over the horizon.
NextScenario == ConfigureSignal \/ ReadSignal
SpecScenario == InitSensor /\ [][NextScenario]_vars

\* The sampling loops of the readings, instant by instant.
NextSampling == BeginDay \/ SampleOperating \/ SampleNight
SpecSampling == InitSensor /\ [][NextSampling]_vars

NextSensor == BuildDimTables \/ ScheduleMaintenance \/ CallGenerateSensorValue
SpecSensor == InitSensor /\ [][NextSensor]_vars

\* run() called up to MaxCalls times on one ScadaSimulator instance.
NextRerun ==
    \/ BuildDimTables
    \/ ScheduleMaintenance
    \/ GenerateOrders
    \/ BuildFactSensorReadings
    \/ BuildFactProduction
    \/ BuildFactQualityEvents
    \/ BuildFactDowntime
    \/ BuildFactAlarms
    \/ RunAgain
SpecRerun == InitScada /\ [][NextRerun]_vars

\* JobShopSimulator(seed).run(2) up to the production table, the choices of
\* the order loop left open.
InitTwoJobs ==
    /\ \E seed \in Seeds : rng = NpGen(seed) /\ pyRandom = PyGen(seed)
    /\ n_orders = 2
    /\ sims = NoSims
    /\ simulator = "jobshop"
    /\ stage = "new"
    /\ maintenance_dates = NoDates
    /\ days_since = <<>>
    /\ NoTables
NextTwoJobs ==
    \/ BuildDimensions
    \/ BuildFactJobOrdersAnyChoice
    \/ JobShopBuildFactProduction
SpecTwoJobs == InitTwoJobs /\ [][NextTwoJobs]_vars

\* A run of either simulator.
InitRun == InitScada \/ InitJobShop
NextRun ==
    \/ BuildDimTables
    \/ ScheduleMaintenance
    \/ GenerateOrders
    \/ BuildFactSensorReadings
    \/ BuildFactProduction
    \/ BuildFactQualityEvents
    \/ BuildFactDowntime
    \/ BuildFactAlarms
    \/ BuildDimensions
    \/ BuildFactJobOrders
    \/ JobShopBuildFactProduction
    \/ BuildFactQuality
    \/ JobShopBuildFactDowntime
SpecRun == InitRun /\ [][NextRun]_vars
====
